---- MODULE Spec2Model ----
(***************************************************************************)
(* A model of pyrost/data_processing.py: the index transforms (Crop,       *)
(* Downscale, Mirror, ComposeTransforms) and the STData container with its *)
(* update operations.  Arrays are records carrying their shape and their   *)
(* elements; index grids hold 0-based indices as numpy's do.               *)
(***************************************************************************)
EXTENDS Integers, Sequences, FiniteSets, TLC

VARIABLES
    tcall,      \* the last Transform.forward call: transform, input, output
    theap,      \* the caller's transform objects, by identity
    tlist,      \* the caller's list of transform identities
    comp,       \* the ComposeTransforms object built last, or None
    tres,       \* the outcome of the last constructor / index_array call
    store,      \* attribute store of a container, in storage order
    shapeOut,   \* the value last read from STData.shape
    objs,       \* the STData instances the caller's two variables hold
    st,         \* the SpeckleTracking record the caller holds, or None
    last,       \* the last STData call: operation, receiver, outcome
    order,      \* the order in which a container iterates its attributes
    calls,      \* the number of containers constructed so far
    sweep,      \* the defocus_sweep call in progress: its locals, or None
    geo         \* the last _pixel_translations evaluation, or None

tvars == <<tcall, theap, tlist, comp, tres>>
svars == <<store, shapeOut>>
cvars == <<objs, st, last, order, calls>>
gvars == <<sweep, geo>>
vars == <<tcall, theap, tlist, comp, tres, store, shapeOut, objs, st, last, order, calls,
          sweep, geo>>

\* Python's None, and a present scalar.
None == [none |-> TRUE]
Box(v) == [val |-> v]
\* A one-dimensional array or a list: its length and its elements.
Vec(q) == [n |-> Len(q), v |-> q]

Range(f) == {f[x] : x \in DOMAIN f}
Min(a, b) == IF a < b THEN a ELSE b
Max(a, b) == IF a > b THEN a ELSE b
Abs(a) == IF a < 0 THEN -a ELSE a

(***************************************************************************)
(* Arrays.  A frame is [h, w, v] with v[i][j]; a stack is [n, h, w, v]     *)
(* with v[f][i][j]; a grid pair is [err, h, w, ss, fs].                    *)
(***************************************************************************)
Frame(h, w, v) == [h |-> h, w |-> w, v |-> v]
Stack(n, h, w, v) == [n |-> n, h |-> h, w |-> w, v |-> v]
Grid(h, w, ss, fs) == [err |-> "", h |-> h, w |-> w, ss |-> ss, fs |-> fs]
GridErr(e) == [err |-> e, h |-> 0, w |-> 0, ss |-> <<>>, fs |-> <<>>]

\* np.indices((h, w)): ss[i][j] = i, fs[i][j] = j, 0-based.
Indices(h, w) ==
    Grid(h, w, [i \in 1..h |-> [j \in 1..w |-> i - 1]],
               [i \in 1..h |-> [j \in 1..w |-> j - 1]])

\* Python slice bounds a[start:stop] on a length-n axis: the 0-based indices.
NormIdx(i, n) == IF i < 0 THEN Max(i + n, 0) ELSE Min(i, n)
SliceIdx(n, start, stop) ==
    LET a == NormIdx(start, n)
        b == NormIdx(stop, n)
    IN  [k \in 1..Max(b - a, 0) |-> a + k - 1]

\* a[::step] on a length-n axis, step # 0.
StepIdx(n, step) ==
    IF step > 0
    THEN [k \in 1..((n + step - 1) \div step) |-> (k - 1) * step]
    ELSE [k \in 1..((n + (-step) - 1) \div (-step)) |-> (n - 1) + (k - 1) * step]

AllIdx(n) == [k \in 1..n |-> k - 1]

\* m[rows][:, cols] for a matrix m (a sequence of rows).
Select(m, rows, cols) ==
    [i \in 1..Len(rows) |-> [j \in 1..Len(cols) |-> m[rows[i] + 1][cols[j] + 1]]]

TakeGrid(g, rows, cols) ==
    Grid(Len(rows), Len(cols), Select(g.ss, rows, cols), Select(g.fs, rows, cols))

(***************************************************************************)
(* Transforms, as values: [type, roi | scale | axis | transforms].         *)
(***************************************************************************)
Crop(roi) == [type |-> "Crop", roi |-> roi]
Downscale(scale) == [type |-> "Downscale", scale |-> scale]
Mirror(axis) == [type |-> "Mirror", axis |-> axis]
Compose(ts) == [type |-> "Compose", transforms |-> ts]

CropIndexArray(t, g) ==
    IF g.h = 1
    THEN TakeGrid(g, AllIdx(g.h), SliceIdx(g.w, t.roi[3], t.roi[4]))
    ELSE IF g.w = 1
    THEN TakeGrid(g, SliceIdx(g.h, t.roi[1], t.roi[2]), AllIdx(g.w))
    ELSE TakeGrid(g, SliceIdx(g.h, t.roi[1], t.roi[2]),
                     SliceIdx(g.w, t.roi[3], t.roi[4]))

DownscaleIndexArray(t, g) ==
    IF t.scale = 0
    THEN GridErr("ValueError")
    ELSE TakeGrid(g, StepIdx(g.h, t.scale), StepIdx(g.w, t.scale))

MirrorIndexArray(t, g) ==
    IF t.axis = 0 THEN TakeGrid(g, StepIdx(g.h, -1), AllIdx(g.w))
    ELSE IF t.axis = 1 THEN TakeGrid(g, AllIdx(g.h), StepIdx(g.w, -1))
    ELSE GridErr("ValueError")

RECURSIVE IndexArray(_, _)
RECURSIVE ComposeFrom(_, _, _)

\* The loop of ComposeTransforms.index_array from the k-th sub-transform on.
ComposeFrom(ts, k, g) ==
    IF k > Len(ts) \/ g.err # "" THEN g
    ELSE ComposeFrom(ts, k + 1, IndexArray(ts[k], g))

ComposeIndexArrayRev(t, g) ==
    ComposeFrom([k \in 1..Len(t.transforms) |->
                    t.transforms[Len(t.transforms) + 1 - k]], 1, g)

ComposeIndexArray(t, g) == ComposeFrom(t.transforms, 1, g)

IndexArray(t, g) ==
    CASE t.type = "Crop" -> CropIndexArray(t, g)
      [] t.type = "Downscale" -> DownscaleIndexArray(t, g)
      [] t.type = "Mirror" -> MirrorIndexArray(t, g)
      [] t.type = "Compose" -> ComposeIndexArray(t, g)

\* numpy's inp[..., ss, fs] for one frame: out[i][j] = inp[ss[i][j], fs[i][j]].
FancyIndex(m, g) ==
    [i \in 1..g.h |-> [j \in 1..g.w |-> m[g.ss[i][j] + 1][g.fs[i][j] + 1]]]

\* A forward that drops the call to index_array.
ForwardNoTransform(t, inp) ==
    LET g == Indices(inp.h, inp.w)
    IN  [err |-> "", h |-> g.h, w |-> g.w, v |-> FancyIndex(inp.v, g)]

\* Transform.forward on a frame.
Forward(t, inp) ==
    LET g == IndexArray(t, Indices(inp.h, inp.w))
    IN  IF g.err # "" THEN [err |-> g.err, h |-> 0, w |-> 0, v |-> <<>>]
        ELSE [err |-> "", h |-> g.h, w |-> g.w, v |-> FancyIndex(inp.v, g)]

(***************************************************************************)
(* Transform.forward on frames: the specification SpecForward.             *)
(***************************************************************************)
MaxDim == 3
MaxScale == 2

RoiVals == {0, 1, MaxDim}
Crops == {Crop(<<y0, y1, x0, x1>>) : y0 \in RoiVals, y1 \in RoiVals,
                                     x0 \in RoiVals, x1 \in RoiVals}
Downscales == {Downscale(s) : s \in -1..MaxScale}
Mirrors == {Mirror(0), Mirror(1)}
ComposeParts == {Crop(<<0, MaxDim, 1, MaxDim>>), Crop(<<1, MaxDim, 0, 1>>),
                 Downscale(MaxScale), Downscale(0), Mirror(0), Mirror(1)}
Composes ==
    {Compose(<<a, b>>) : a \in ComposeParts, b \in ComposeParts}
    \cup {Compose(<<a, b, Mirror(1)>>) : a \in ComposeParts, b \in {Mirror(0), Downscale(MaxScale)}}
    \cup {Compose(<<Compose(<<a, Mirror(0)>>), Downscale(MaxScale)>>) : a \in ComposeParts}
TransformSet == Crops \cup Downscales \cup Mirrors \cup Composes

\* One frame per shape, every pixel holding a distinct value.
LabelFrame(h, w) == Frame(h, w, [i \in 1..h |-> [j \in 1..w |-> (i - 1) * w + j]])
FrameSet == {LabelFrame(h, w) : h \in 1..MaxDim, w \in 1..MaxDim}

TCallIdle == [t |-> None, inp |-> None, out |-> None]

\* frame' = transform.forward(frame)
TForward ==
    /\ tcall = TCallIdle
    /\ \E t \in TransformSet, f \in FrameSet :
          tcall' = [t |-> t, inp |-> f, out |-> Forward(t, f)]
    /\ UNCHANGED <<theap, tlist, comp, tres, store, shapeOut, cvars, gvars>>

\* The caller drops the result and is free to call again.
TReturn ==
    /\ tcall # TCallIdle
    /\ tcall' = TCallIdle
    /\ UNCHANGED <<theap, tlist, comp, tres, store, shapeOut, cvars, gvars>>

\* The variables of the other specifications, at rest.
IdleForward == tcall = TCallIdle
IdleCompose == theap = <<>> /\ tlist = <<>> /\ comp = None /\ tres = None
IdleShape == store = <<>> /\ shapeOut = None
IdleSweep == sweep = None /\ geo = None
IdleContainer == objs = <<>> /\ st = None /\ last = None /\ order = <<>> /\ calls = 0

InitForward == IdleForward /\ IdleCompose /\ IdleShape /\ IdleContainer /\ IdleSweep
NextForward == TForward \/ TReturn
SpecForward == InitForward /\ [][NextForward]_vars

\* C4: for every transform variant and every frame, forward(frame) is the
\* frame indexed by the grids index_array returns for the identity grid of
\* the frame's shape: the output has the grids' shape, and
\* forward(frame)[i, j] = frame[ss'[i, j], fs'[i, j]]; forward fails exactly
\* when index_array fails.
ForwardIsIndexing ==
    tcall.t # None =>
        LET g == IndexArray(tcall.t, Indices(tcall.inp.h, tcall.inp.w))
        IN  /\ tcall.out.err = g.err
            /\ g.err = "" =>
                  /\ tcall.out.h = g.h /\ tcall.out.w = g.w
                  /\ \A i \in 1..g.h, j \in 1..g.w :
                        tcall.out.v[i][j] =
                            tcall.inp.v[g.ss[i][j] + 1][g.fs[i][j] + 1]

\* A composed transform was applied to a frame and moved or dropped pixels.
ForwardWitness ==
    /\ tcall.t # None
    /\ tcall.t.type = "Compose"
    /\ tcall.out.err = ""
    /\ tcall.out.h * tcall.out.w > 1
    /\ tcall.out.v # tcall.inp.v

(***************************************************************************)
(* ComposeTransforms over the caller's objects: the specification          *)
(* SpecCompose.  The caller owns two objects and a list naming them; it    *)
(* may rebind attributes of its objects and change its list at any time.   *)
(***************************************************************************)
MaxList == 2

TIds == {1, 2}

\* Things a caller may put in the list that are not usable transforms:
\* an int (no state_dict), a bare Transform() (state_dict not implemented).
NotATransform(kind) == [type |-> kind]
CallerInitial == {Crop(<<0, MaxDim, 1, MaxDim>>), Downscale(MaxScale), Mirror(0),
                  NotATransform("int"), NotATransform("Transform")}

\* Values an attribute assignment on the caller's object can give it.
Rebound(obj) ==
    CASE obj.type = "Crop" -> {Crop(<<0, MaxDim, 1, MaxDim>>), Crop(<<1, MaxDim, 0, 1>>)}
      [] obj.type = "Downscale" -> {Downscale(MaxScale), Downscale(1)}
      [] obj.type = "Mirror" -> {Mirror(0), Mirror(1), Mirror(2)}
      [] OTHER -> {}

\* Mirror.__init__: the only constructor that validates its argument.
CtorError(pdict) ==
    IF pdict.type = "Mirror" /\ pdict.axis \notin {0, 1} THEN "ValueError" ELSE ""

\* type(transform)(**transform.state_dict()) on the object with identity id:
\* the error raised, or "" with a fresh object holding the same parameters.
ReconstructError(obj) ==
    CASE obj.type = "int" -> "AttributeError"
      [] obj.type = "Transform" -> "NotImplementedError"
      [] OTHER -> CtorError(obj)

\* A constructor that keeps the caller's object instead of rebuilding it.
ReconstructAlias(id, heap) == [ref |-> id, val |-> heap[id]]

Reconstruct(id, heap) == [ref |-> 0, val |-> heap[id]]

\* The transform a list entry of a composed object denotes now.
Deref(e, heap) == IF e.ref = 0 THEN e.val ELSE heap[e.ref]

\* The first error of the constructor's loop over the list, "" if none.
RECURSIVE LoopError(_, _, _)
LoopError(ids, k, heap) ==
    IF k > Len(ids) THEN ""
    ELSE IF ReconstructError(heap[ids[k]]) # "" THEN ReconstructError(heap[ids[k]])
    ELSE LoopError(ids, k + 1, heap)

\* A length check that lets a single transform through.
ComposeInitErrorLax(ids, heap) ==
    IF LoopError(ids, 1, heap) # "" THEN LoopError(ids, 1, heap)
    ELSE IF Len(ids) < 1 THEN "ValueError"
    ELSE ""

\* ComposeTransforms.__init__: the error it raises, "" if it returns.
ComposeInitError(ids, heap) ==
    IF LoopError(ids, 1, heap) # "" THEN LoopError(ids, 1, heap)
    ELSE IF Len(ids) < 2 THEN "ValueError"
    ELSE ""

\* self.transforms after a successful construction.
ComposeInitTransforms(ids, heap) == [k \in 1..Len(ids) |-> Reconstruct(ids[k], heap)]

GridInputs == {Indices(MaxDim, MaxDim), Indices(1, MaxDim), Indices(MaxDim - 1, 1)}

\* obj.scale = ..., obj.axis = ..., obj.roi = ...
CSetAttr ==
    /\ \E id \in TIds : \E v \in Rebound(theap[id]) :
          /\ v # theap[id]
          /\ theap' = [theap EXCEPT ![id] = v]
    /\ tres' = None
    /\ UNCHANGED <<tlist, comp, tcall, store, shapeOut, cvars, gvars>>

\* transforms.append(obj)
CListAppend ==
    /\ Len(tlist) < MaxList
    /\ \E id \in TIds : tlist' = Append(tlist, id)
    /\ tres' = None
    /\ UNCHANGED <<theap, comp, tcall, store, shapeOut, cvars, gvars>>

\* transforms.pop()
CListPop ==
    /\ Len(tlist) > 0
    /\ tlist' = SubSeq(tlist, 1, Len(tlist) - 1)
    /\ tres' = None
    /\ UNCHANGED <<theap, comp, tcall, store, shapeOut, cvars, gvars>>

\* composed = ComposeTransforms(transforms).  `given` records the parameter
\* values the listed objects had at the call, in list order.
CComposeInit ==
    /\ LET e == ComposeInitError(tlist, theap)
       IN  /\ tres' = [op |-> "init", err |-> e, ids |-> tlist, heap |-> theap]
           /\ comp' = IF e # "" THEN None
                      ELSE [transforms |-> ComposeInitTransforms(tlist, theap),
                            given |-> [k \in 1..Len(tlist) |-> theap[tlist[k]]]]
    /\ UNCHANGED <<theap, tlist, tcall, store, shapeOut, cvars, gvars>>

\* composed.index_array(ss_idxs, fs_idxs)
CIndexArray ==
    /\ comp # None
    /\ \E g \in GridInputs :
          tres' = [op |-> "index_array", g |-> g,
                   out |-> ComposeIndexArray(
                       Compose([k \in 1..Len(comp.transforms) |->
                                   Deref(comp.transforms[k], theap)]), g)]
    /\ UNCHANGED <<theap, tlist, comp, tcall, store, shapeOut, cvars, gvars>>

InitCompose ==
    /\ theap \in [TIds -> CallerInitial]
    /\ tlist = <<>> /\ comp = None /\ tres = None
    /\ IdleForward /\ IdleShape /\ IdleContainer /\ IdleSweep
NextCompose == CSetAttr \/ CListAppend \/ CListPop \/ CComposeInit \/ CIndexArray
SpecCompose == InitCompose /\ [][NextCompose]_vars

\* Tn.index_array(... T2.index_array(T1.index_array(g)) ...), written as the
\* nested calls a caller would make by hand; an error ends the chain.
RECURSIVE NestedApply(_, _, _)
NestedApply(ts, n, g) ==
    IF n = 0 THEN g
    ELSE LET r == NestedApply(ts, n - 1, g)
         IN  IF r.err # "" THEN r ELSE IndexArray(ts[n], r)

Reversed(ts) == [k \in 1..Len(ts) |-> ts[Len(ts) + 1 - k]]

\* C5: a ComposeTransforms built from [T1, ..., Tn] (n >= 2) applies the
\* sub-transforms left to right, index_array(g) = Tn(...T2(T1(g))...), with
\* the parameters the listed objects had at construction: it holds its own
\* copies, so what the caller does to its list and objects afterwards does
\* not alter the composed transform.
ComposeAppliesInOrder ==
    /\ comp # None =>
          /\ Len(comp.given) >= 2
          /\ Len(comp.transforms) = Len(comp.given)
          /\ \A k \in 1..Len(comp.given) :
                Deref(comp.transforms[k], theap) = comp.given[k]
    /\ (tres # None /\ tres.op = "index_array") =>
          tres.out = NestedApply(comp.given, Len(comp.given), tres.g)

\* index_array was called on a composed transform after the caller changed
\* what it had listed, and the order of the sub-transforms shows in the result.
ComposeWitness ==
    /\ tres # None /\ tres.op = "index_array"
    /\ tres.out.err = "" /\ tres.out.h * tres.out.w > 0
    /\ tres.out # NestedApply(Reversed(comp.given), Len(comp.given), tres.g)
    /\ \/ Len(tlist) # Len(comp.given)
       \/ \E k \in 1..Len(comp.given) : theap[tlist[k]] # comp.given[k]

\* A transform that can be rebuilt from its state_dict.
IsTransform(obj) ==
    /\ obj.type \in {"Crop", "Downscale", "Mirror"}
    /\ obj.type = "Mirror" => obj.axis \in {0, 1}

\* C6: constructing a ComposeTransforms from zero or one transforms fails
\* with ValueError, constructing it from a sequence holding an element that
\* is not a transform rebuildable from its state_dict fails too, and in both
\* cases no composed object is produced.
ComposeRejects ==
    (tres # None /\ tres.op = "init") =>
        LET allOk == \A k \in 1..Len(tres.ids) : IsTransform(tres.heap[tres.ids[k]])
        IN  /\ (allOk /\ Len(tres.ids) < 2) => (tres.err = "ValueError" /\ comp = None)
            /\ ~allOk => (tres.err # "" /\ comp = None)
            /\ tres.err # "" => comp = None

\* The constructor was given a list of exactly one good transform and refused.
ComposeRejectsWitness ==
    /\ tres # None /\ tres.op = "init"
    /\ Len(tres.ids) = 1
    /\ IsTransform(tres.heap[tres.ids[1]])
    /\ tres.err = "ValueError" /\ comp = None

\* The constructor was given a list holding something that is no transform.
ComposeRejectsElementWitness ==
    /\ tres # None /\ tres.op = "init"
    /\ Len(tres.ids) = 2
    /\ \E k \in 1..2 : ~IsTransform(tres.heap[tres.ids[k]])
    /\ tres.err \notin {"", "ValueError"} /\ comp = None

(***************************************************************************)
(* STData.shape over the attributes a container stores: the specification  *)
(* SpecShape.  An item is what self.items() yields with the protocol's     *)
(* kind of the attribute: [kind, present, shape].                          *)
(***************************************************************************)
MaxAttrs == 3

Item(kind, present, shape) == [kind |-> kind, present |-> present, shape |-> shape]

\* One of the three loops of shape: the last present item of the kind wins.
RECURSIVE ShapeLoop(_, _, _, _)
ShapeLoop(items, k, kind, shape) ==
    IF k > Len(items) THEN shape
    ELSE LET it == items[k]
             next == IF it.present /\ it.kind = kind
                     THEN CASE kind = "sequence" -> <<it.shape[1], shape[2], shape[3]>>
                            [] kind = "frame" -> <<shape[1]>> \o it.shape
                            [] kind = "stack" -> it.shape
                     ELSE shape
         IN  ShapeLoop(items, k + 1, kind, next)

\* A shape that handles every kind in one pass over the items.
RECURSIVE ShapeOnePassFrom(_, _, _)
ShapeOnePassFrom(items, k, shape) ==
    IF k > Len(items) THEN shape
    ELSE LET it == items[k]
             next == IF ~it.present THEN shape
                     ELSE CASE it.kind = "sequence" -> <<it.shape[1], shape[2], shape[3]>>
                            [] it.kind = "frame" -> <<shape[1]>> \o it.shape
                            [] it.kind = "stack" -> it.shape
                            [] OTHER -> shape
         IN  ShapeOnePassFrom(items, k + 1, next)
ShapeOnePass(items) == ShapeOnePassFrom(items, 1, <<0, 0, 0>>)

\* STData.shape
Shape(items) ==
    ShapeLoop(items, 1, "stack",
        ShapeLoop(items, 1, "frame",
            ShapeLoop(items, 1, "sequence", <<0, 0, 0>>)))

StoreItems ==
    {Item("sequence", TRUE, sh) : sh \in {<<2>>, <<5>>}}
    \cup {Item("frame", TRUE, sh) : sh \in {<<8, 8>>, <<10, 12>>}}
    \cup {Item("stack", TRUE, sh) : sh \in {<<5, 10, 12>>, <<3, 4, 4>>}}
    \cup {Item(k, FALSE, <<>>) : k \in {"sequence", "frame", "stack"}}
    \cup {Item("scalar", TRUE, <<>>)}

\* The constructor stores one more attribute.
SStore ==
    /\ Len(store) < MaxAttrs
    /\ \E it \in StoreItems : store' = Append(store, it)
    /\ shapeOut' = None
    /\ UNCHANGED <<tcall, theap, tlist, comp, tres, cvars, gvars>>

\* container.shape
SRead ==
    /\ shapeOut = None
    /\ shapeOut' = Shape(store)
    /\ UNCHANGED <<store, tcall, theap, tlist, comp, tres, cvars, gvars>>

InitShape == IdleShape /\ IdleForward /\ IdleCompose /\ IdleContainer /\ IdleSweep
NextShape == SStore \/ SRead
SpecShape == InitShape /\ [][NextShape]_vars

\* The positions of the present items of a kind, and the last of them.
PresentAt(items, kind) == {k \in 1..Len(items) : items[k].present /\ items[k].kind = kind}
LastAt(items, kind) == CHOOSE k \in PresentAt(items, kind) :
                           \A j \in PresentAt(items, kind) : j <= k

\* C7: with a stack-kind attribute present, shape is the full 3-tuple of a
\* present stack-kind attribute (the one stored last), whatever sequence- and
\* frame-kind attributes are present and wherever they are stored; with no
\* stack-kind attribute, shape[0] is the length of a present sequence-kind
\* attribute and shape[1:] the shape of a present frame-kind attribute, with
\* 0 for the dimensions nothing provides.
ShapeFromKinds ==
    shapeOut # None =>
        IF PresentAt(store, "stack") # {}
        THEN shapeOut = store[LastAt(store, "stack")].shape
        ELSE /\ Len(shapeOut) = 3
             /\ shapeOut[1] = IF PresentAt(store, "sequence") = {} THEN 0
                              ELSE store[LastAt(store, "sequence")].shape[1]
             /\ <<shapeOut[2], shapeOut[3]>> =
                    IF PresentAt(store, "frame") = {} THEN <<0, 0>>
                    ELSE store[LastAt(store, "frame")].shape

\* shape was read from a container that stores a stack and, after it, a
\* frame and a sequence that disagree with the stack.
ShapeWitness ==
    /\ shapeOut # None
    /\ Len(store) = 3
    /\ store[1].kind = "stack" /\ store[1].present
    /\ store[2].kind = "frame" /\ store[2].present
    /\ store[3].kind = "sequence" /\ store[3].present
    /\ store[2].shape # <<shapeOut[2], shapeOut[3]>>
    /\ store[3].shape[1] # shapeOut[1]
    /\ shapeOut = store[1].shape

(***************************************************************************)
(* numpy and kernel operations on stacks and frames.                       *)
(***************************************************************************)
ShapeOfStack(a) == <<a.n, a.h, a.w>>

\* np.ones(shape, dtype=bool)
Ones(shape) ==
    Stack(shape[1], shape[2], shape[3],
          [f \in 1..shape[1] |-> [i \in 1..shape[2] |-> [j \in 1..shape[3] |-> TRUE]]])

\* a[idxs] on the frame axis, for indices 0 <= i < a.n.
FramesInRange(a, idxs) == \A k \in 1..Len(idxs) : idxs[k] >= 0 /\ idxs[k] < a.n
TakeFrames(a, idxs) ==
    Stack(Len(idxs), a.h, a.w, [k \in 1..Len(idxs) |-> a.v[idxs[k] + 1]])

\* numpy broadcasting of two 3D operands.
DimOk(x, y) == x = y \/ x = 1 \/ y = 1
CanBroadcast(a, b) == DimOk(a.n, b.n) /\ DimOk(a.h, b.h) /\ DimOk(a.w, b.w)
BDim(x, y) == IF x = 1 THEN y ELSE x
BIdx(i, n) == IF n = 1 THEN 1 ELSE i
Zip(a, b, Op(_, _)) ==
    Stack(BDim(a.n, b.n), BDim(a.h, b.h), BDim(a.w, b.w),
          [f \in 1..BDim(a.n, b.n) |-> [i \in 1..BDim(a.h, b.h) |->
              [j \in 1..BDim(a.w, b.w) |->
                  Op(a.v[BIdx(f, a.n)][BIdx(i, a.h)][BIdx(j, a.w)],
                     b.v[BIdx(f, b.n)][BIdx(i, b.h)][BIdx(j, b.w)])]]])

AsStack(frame) == Stack(1, frame.h, frame.w, <<frame.v>>)

\* data * mask, mask * mask
Masked(x, m) == IF m THEN x ELSE 0
Both(x, y) == x /\ y
MulMask(data, mask) == Zip(data, mask, Masked)
AndMask(m1, m2) == Zip(m1, m2, Both)

RECURSIVE SumSeq(_, _)
SumSeq(q, k) == IF k = 0 THEN 0 ELSE q[k] + SumSeq(q, k - 1)

\* a.sum(axis=axis - 2, keepdims=True) for axis 0 (rows) and 1 (columns).
SumAxis(a, axis) ==
    IF axis = 0
    THEN Stack(a.n, 1, a.w,
               [f \in 1..a.n |-> <<[j \in 1..a.w |->
                   SumSeq([i \in 1..a.h |-> a.v[f][i][j]], a.h)]>>])
    ELSE Stack(a.n, a.h, 1,
               [f \in 1..a.n |-> [i \in 1..a.h |->
                   <<SumSeq(a.v[f][i], a.w)>>]])

\* a.sum(axis=(1, 2)): one total per frame.
FrameSums(a) ==
    [f \in 1..a.n |-> SumSeq([i \in 1..a.h |-> SumSeq(a.v[f][i], a.w)], a.h)]

\* The median of the values data takes at the frames in `valid` (the middle
\* one of the sorted values, the upper of the two for an even count; 0 when
\* nothing is valid).
MedianAt(valid, val(_)) ==
    IF valid = {} THEN 0
    ELSE LET m == Cardinality(valid) \div 2
         IN  CHOOSE v \in {val(f) : f \in valid} :
                /\ Cardinality({f \in valid : val(f) < v}) <= m
                /\ Cardinality({f \in valid : val(f) <= v}) > m

\* median(inp=data, axis=0, mask=mask): the per-pixel median over the frames
\* the mask keeps.
Median(data, mask) ==
    Frame(data.h, data.w,
          [i \in 1..data.h |-> [j \in 1..data.w |->
              LET val(f) == data.v[f][i][j]
              IN  MedianAt({f \in 1..data.n : mask.v[f][i][j]}, val)]])

(***************************************************************************)
(* The STData container.  An instance is a record of its attributes; None  *)
(* stands for an attribute that is not there.  translations stands for the *)
(* geometry attributes a full load brings together (basis_vectors,         *)
(* distance, translations, wavelength, pixel sizes).                       *)
(***************************************************************************)
Slots == {"a", "b"}
Other(s) == IF s = "a" THEN "b" ELSE "a"

EmptyAttrs ==
    [data |-> None, mask |-> None, whitefields |-> None, whitefield |-> None,
     frames |-> None, good_frames |-> None, translations |-> None,
     transform |-> None, defocus_x |-> None, defocus_y |-> None,
     pixel_translations |-> None, pixel_aberrations |-> None, phase |-> None,
     reference_image |-> None, scale_map |-> None, output_file |-> None]

\* The protocol's kind of an attribute.
StackAttrs == {"data", "mask", "whitefields"}
FrameAttrs == {"whitefield", "phase", "pixel_aberrations", "reference_image", "scale_map"}
SequenceAttrs == {"frames", "translations", "pixel_translations"}
Kind(attr) ==
    IF attr \in StackAttrs THEN "stack"
    ELSE IF attr \in FrameAttrs THEN "frame"
    ELSE IF attr \in SequenceAttrs THEN "sequence"
    ELSE "scalar"

\* data.shape of an attribute value.
ShapeOf(attr, v) ==
    IF v = None THEN <<>>
    ELSE IF attr \in StackAttrs THEN <<v.n, v.h, v.w>>
    ELSE IF attr = "whitefield" THEN <<v.h, v.w>>
    ELSE IF attr \in {"frames", "translations"} THEN <<v.n>>
    ELSE v.sh

\* self.items(), restricted to the attributes of the protocol, in the order
\* the container iterates them.
Items(a, ord) ==
    [k \in 1..Len(ord) |-> Item(Kind(ord[k]), a[ord[k]] # None, ShapeOf(ord[k], a[ord[k]]))]

ShapeOfContainer(a, ord) == Shape(Items(a, ord))

\* STData._pixel_translations, kept symbolic: what it was derived from.
PixelTranslations(a, dy) ==
    [sh |-> <<a.translations.n, 2>>, defocus_y |-> dy.val,
     defocus_x |-> a.defocus_x.val, translations |-> a.translations]

\* A good_frames default that looks for a sequence-kind attribute only.
InitGoodFramesSequence(a, ord) ==
    IF a.good_frames = None /\ (\E x \in SequenceAttrs : a[x] # None)
                           /\ ShapeOfContainer(a, ord)[1] > 0
    THEN Vec(AllIdx(ShapeOfContainer(a, ord)[1]))
    ELSE a.good_frames

\* STData.__init__ on the attribute values a: the error it raises, "" if none.
InitGoodFrames(a, ord) ==
    IF a.good_frames = None /\ ShapeOfContainer(a, ord)[1] > 0
    THEN Vec(AllIdx(ShapeOfContainer(a, ord)[1]))
    ELSE a.good_frames

InitMask(a, ord) ==
    IF a.data # None /\ a.mask = None THEN Ones(ShapeOfContainer(a, ord)) ELSE a.mask

WhitefieldError(data, mask, gf) ==
    IF gf = None THEN "ValueError"
    ELSE IF ~FramesInRange(data, gf.v) \/ ~FramesInRange(mask, gf.v) THEN "IndexError"
    ELSE IF <<data.h, data.w>> # <<mask.h, mask.w>> THEN "ValueError"
    ELSE ""

InitError(a, ord) ==
    IF a.data # None /\ a.whitefield = None
       /\ WhitefieldError(a.data, InitMask(a, ord), InitGoodFrames(a, ord)) # ""
    THEN WhitefieldError(a.data, InitMask(a, ord), InitGoodFrames(a, ord))
    ELSE IF a.defocus_x # None /\ a.pixel_translations = None /\ a.translations = None
    THEN "TypeError"
    ELSE ""

\* The whitefield default: median of data[good_frames] under mask[good_frames].
DefaultWhitefield(data, mask, gf) ==
    Median(TakeFrames(data, gf.v), TakeFrames(mask, gf.v))

\* STData.__init__ followed by _init_attributes: every default whose
\* attribute is None is filled in, in the order the defaults were registered.
NewContainer(a, ord) ==
    LET gf == InitGoodFrames(a, ord)
        mask == InitMask(a, ord)
        wf == IF a.data # None /\ a.whitefield = None
              THEN DefaultWhitefield(a.data, mask, gf) ELSE a.whitefield
        dy == IF a.defocus_x # None /\ a.defocus_y = None THEN a.defocus_x ELSE a.defocus_y
        pt == IF a.defocus_x # None /\ a.pixel_translations = None
              THEN PixelTranslations(a, dy) ELSE a.pixel_translations
    IN  [a EXCEPT !.good_frames = gf, !.mask = mask, !.whitefield = wf,
                  !.defocus_y = dy, !.pixel_translations = pt]

\* dict_to_object: the receiver's attributes overridden by the returned dict.
Patch(c, dict) == [k \in DOMAIN c |-> IF k \in DOMAIN dict THEN dict[k] ELSE c[k]]

(***************************************************************************)
(* The input file: three frames of 2 x 3 pixels, one of them empty, and    *)
(* one translation per frame.                                              *)
(***************************************************************************)
FileData ==
    Stack(3, 2, 3, << << <<1, 2, 3>>, <<0, 1, 2>> >>,
                      << <<0, 0, 0>>, <<0, 0, 0>> >>,
                      << <<3, 1, 2>>, <<2, 0, 5>> >> >>)
FileTranslations == <<0, 10, 20>>
FileKeys == {"data", "translations"}
InitSet == DOMAIN EmptyAttrs

\* input_file.load_attribute(attr, idxs, ss_idxs, fs_idxs); g is None when
\* no index grids are passed.
LoadAttribute(attr, idxs, g) ==
    IF attr = "data"
    THEN LET sel == TakeFrames(FileData, idxs)
         IN  IF g = None THEN sel
             ELSE Stack(sel.n, g.h, g.w, [f \in 1..sel.n |-> FancyIndex(sel.v[f], g)])
    ELSE Vec([k \in 1..Len(idxs) |-> FileTranslations[idxs[k] + 1]])

\* A result of an operation body: an error, or the dict it returns.
Raise(e) == [err |-> e, dict |-> <<>>]
Return(d) == [err |-> "", dict |-> d]

RECURSIVE FirstBad(_, _)
FirstBad(attrs, k) ==
    IF k > Len(attrs) THEN 0
    ELSE IF attrs[k] \notin FileKeys \/ attrs[k] \notin InitSet THEN k
    ELSE FirstBad(attrs, k + 1)

\* STData.load
OpLoad(c, attributes, idxs) ==
    LET attrs == IF attributes = None THEN <<"data", "translations">> ELSE attributes.v
        ix == IF idxs = None THEN AllIdx(FileData.n) ELSE idxs.v
        g == IF c.transform # None /\ FileData.h * FileData.w # 0
             THEN IndexArray(c.transform, Indices(FileData.h, FileData.w))
             ELSE None
    IN  IF FirstBad(attrs, 1) # 0 THEN Raise("ValueError")
        ELSE IF g # None /\ g.err # "" THEN Raise(g.err)
        ELSE Return([k \in {"frames", "good_frames"} \cup Range(attrs) |->
                        IF k = "frames" THEN Vec(ix)
                        ELSE IF k = "good_frames" THEN None
                        ELSE LoadAttribute(k, ix, g)])

\* The attributes whose value is an ndarray when present.
ArrayAttrs == StackAttrs \cup FrameAttrs \cup SequenceAttrs \cup {"good_frames"}

\* STData.clear
OpClear(c, attributes) ==
    LET attrs == IF attributes = None THEN DOMAIN c ELSE Range(attributes.v)
    IN  Return([k \in {x \in attrs \cap ArrayAttrs : c[x] # None} |-> None])

\* STData.update_output_file
OpUpdateOutputFile(c, f) == Return([k \in {"output_file"} |-> Box(f)])

\* The stack- and frame-kind attributes that are present.
PresentImages(c) == {x \in StackAttrs \cup FrameAttrs : c[x] # None}

\* STData.integrate_data
OpIntegrateData(c, axis) ==
    IF c.data = None THEN Raise("AttributeError")
    ELSE IF c.mask = None THEN Raise("TypeError")
    ELSE IF ~CanBroadcast(c.data, c.mask) THEN Raise("ValueError")
    ELSE Return([k \in PresentImages(c) \cup {"data"} |->
                    IF k = "data" THEN SumAxis(MulMask(c.data, c.mask), axis) ELSE None])

\* np.where(sums > 0)[0]: the 0-based positions of the positive sums, ascending.
RECURSIVE WherePositive(_, _)
WherePositive(sums, k) ==
    IF k = 0 THEN <<>>
    ELSE IF sums[k] > 0 THEN Append(WherePositive(sums, k - 1), k - 1)
    ELSE WherePositive(sums, k - 1)

\* A mask_frames that leaves the whitefield in place.
OpMaskFramesKeep(c, good_frames) ==
    IF good_frames = None /\ c.data = None THEN Raise("AttributeError")
    ELSE Return([k \in {"good_frames"} |->
                    IF good_frames = None
                    THEN Vec(WherePositive(FrameSums(c.data), c.data.n))
                    ELSE good_frames])

\* STData.mask_frames
OpMaskFrames(c, good_frames) ==
    IF good_frames = None /\ c.data = None THEN Raise("AttributeError")
    ELSE Return([k \in {"good_frames", "whitefield"} |->
                    IF k = "whitefield" THEN None
                    ELSE IF good_frames = None
                    THEN Vec(WherePositive(FrameSums(c.data), c.data.n))
                    ELSE good_frames])

\* An update_whitefield that clears nothing.
OpUpdateWhitefieldKeep(c) == Return(<<>>)

\* STData.update_whitefield
OpUpdateWhitefield(c) == Return([k \in {"whitefield"} |-> None])

\* An update_defocus that leaves the cached pixel_translations in place.
OpUpdateDefocusKeep(c, defocus_x, defocus_y) ==
    Return([k \in {"defocus_y", "defocus_x"} |->
               IF k = "defocus_x" THEN Box(defocus_x)
               ELSE (IF defocus_y = None THEN Box(defocus_x) ELSE defocus_y)])

\* STData.update_defocus
OpUpdateDefocus(c, defocus_x, defocus_y) ==
    Return([k \in {"defocus_y", "defocus_x", "pixel_translations"} |->
               IF k = "defocus_x" THEN Box(defocus_x)
               ELSE IF k = "defocus_y"
               THEN (IF defocus_y = None THEN Box(defocus_x) ELSE defocus_y)
               ELSE None])

\* (data >= vmin) & (data < vmax)
InRange(d, vmin, vmax) ==
    Stack(d.n, d.h, d.w, [f \in 1..d.n |-> [i \in 1..d.h |-> [j \in 1..d.w |->
              d.v[f][i][j] >= vmin /\ d.v[f][i][j] < vmax]]])

\* The first part of update_mask: the data the new mask is computed from.
\* [err, d]; d is None when the container has no data.
MaskSource(c, update) ==
    IF update = "reset" THEN [err |-> "", d |-> c.data]
    ELSE IF update = "multiply"
    THEN IF c.data = None \/ c.mask = None THEN [err |-> "TypeError", d |-> None]
         ELSE IF ~CanBroadcast(c.data, c.mask) THEN [err |-> "ValueError", d |-> None]
         ELSE [err |-> "", d |-> MulMask(c.data, c.mask)]
    ELSE [err |-> "ValueError", d |-> None]

\* The second part: the new mask by method; [err, bound, m], bound FALSE when
\* no branch assigned the local variable mask.  'perc-bad' is taken with
\* pmin = 0 and pmax = 100, where every offset lies within the percentiles.
NewMask(c, ord, d, method, vmin, vmax) ==
    IF method = "no-bad"
    THEN [err |-> "", bound |-> TRUE, m |-> Ones(ShapeOfContainer(c, ord))]
    ELSE IF method = "range-bad"
    THEN IF d = None THEN [err |-> "TypeError", bound |-> FALSE, m |-> None]
         ELSE [err |-> "", bound |-> TRUE, m |-> InRange(d, vmin, vmax)]
    ELSE IF method = "perc-bad"
    THEN IF d = None THEN [err |-> "TypeError", bound |-> FALSE, m |-> None]
         ELSE [err |-> "", bound |-> TRUE, m |-> Ones(ShapeOfStack(d))]
    ELSE [err |-> "", bound |-> FALSE, m |-> None]

\* An update_mask that returns the new mask alone in both update modes.
OpUpdateMaskNoMultiply(c, ord, method, vmin, vmax, update) ==
    LET src == MaskSource(c, update)
        new == NewMask(c, ord, src.d, method, vmin, vmax)
    IN  IF src.err # "" THEN Raise(src.err)
        ELSE IF new.err # "" THEN Raise(new.err)
        ELSE IF ~new.bound THEN Raise("UnboundLocalError")
        ELSE Return([k \in {"mask", "whitefield"} |-> IF k = "mask" THEN new.m ELSE None])

\* STData.update_mask
OpUpdateMask(c, ord, method, vmin, vmax, update) ==
    LET src == MaskSource(c, update)
        new == NewMask(c, ord, src.d, method, vmin, vmax)
    IN  IF src.err # "" THEN Raise(src.err)
        ELSE IF new.err # "" THEN Raise(new.err)
        ELSE IF ~new.bound THEN Raise("UnboundLocalError")
        ELSE IF update = "reset"
        THEN Return([k \in {"mask", "whitefield"} |-> IF k = "mask" THEN new.m ELSE None])
        ELSE IF ~CanBroadcast(new.m, c.mask) THEN Raise("ValueError")
        ELSE Return([k \in {"mask", "whitefield"} |->
                        IF k = "mask" THEN AndMask(new.m, c.mask) ELSE None])

\* transform.forward on a stack, a whitefield, or a symbolic frame attribute
\* (whose last two dimensions follow the index grids).
ForwardValue(t, attr, v) ==
    IF attr \in StackAttrs
    THEN LET g == IndexArray(t, Indices(v.h, v.w))
         IN  Stack(v.n, g.h, g.w, [f \in 1..v.n |-> FancyIndex(v.v[f], g)])
    ELSE IF attr = "whitefield"
    THEN LET r == Forward(t, v) IN Frame(r.h, r.w, r.v)
    ELSE LET n == Len(v.sh)
             g == IndexArray(t, Indices(v.sh[n - 1], v.sh[n]))
         IN  [v EXCEPT !.sh = SubSeq(v.sh, 1, n - 2) \o <<g.h, g.w>>,
                       !.fwd = Append(v.fwd, t)]

ImageDims(attr, v) ==
    IF attr \in StackAttrs \/ attr = "whitefield" THEN <<v.h, v.w>>
    ELSE <<v.sh[Len(v.sh) - 1], v.sh[Len(v.sh)]>>

Tagged(c) == {x \in StackAttrs \cup FrameAttrs \cup SequenceAttrs : c[x] # None}

\* STData.update_transform
OpUpdateTransform(c, t) ==
    IF c.transform = None
    THEN IF \E x \in PresentImages(c) :
                IndexArray(t, Indices(ImageDims(x, c[x])[1], ImageDims(x, c[x])[2])).err # ""
         THEN Raise("ValueError")
         ELSE Return([k \in Tagged(c) \cup {"transform"} |->
                         IF k = "transform" THEN t
                         ELSE IF k \in PresentImages(c) THEN ForwardValue(t, k, c[k])
                         ELSE c[k]])
    ELSE Return([k \in PresentImages(c) \cup {"transform"} |->
                    IF k = "transform" THEN t ELSE None])

\* median_filter(data, size=(size, 1, 1), mask=outliers) for a window that
\* spans every frame: each pixel's median over the frames the mask keeps.
MedianFilterFrames(data, keep) ==
    Stack(data.n, data.h, data.w,
          [f \in 1..data.n |-> [i \in 1..data.h |-> [j \in 1..data.w |->
              LET val(k) == data.v[k][i][j]
              IN  MedianAt({k \in 1..data.n : keep.v[k][i][j]}, val)]]])

\* np.abs(data - whitefield) < 3 * np.sqrt(whitefield), on integers.
NotOutlier(x, wf) == wf >= 0 /\ (x - wf) * (x - wf) < 9 * wf

\* STData.update_whitefields, with effs left at its default None.
OpUpdateWhitefields(c, method) ==
    IF c.data = None THEN Raise("ValueError")
    ELSE IF method = "median"
    THEN IF c.whitefield = None THEN Raise("TypeError")
         ELSE IF ~CanBroadcast(c.data, AsStack(c.whitefield)) THEN Raise("ValueError")
         ELSE LET keep == Zip(c.data, AsStack(c.whitefield), NotOutlier)
              IN  IF ShapeOfStack(keep) # ShapeOfStack(c.data) THEN Raise("ValueError")
                  ELSE Return([k \in {"whitefields"} |-> MedianFilterFrames(c.data, keep)])
    ELSE Raise("ValueError")

(***************************************************************************)
(* The solver hand-off: pixel_map, get_st, import_st, defocus_sweep and    *)
(* get_fit.  Floating-point arrays are kept symbolic: a record of their    *)
(* shape, the transforms applied to them, and what they were made from.    *)
(***************************************************************************)

\* STData.pixel_map: the index grids of the file's frame shape, through the
\* transform, flipped along the axes whose defocus is negative.
PixelMap(c, ord) ==
    LET sh == ShapeOfContainer(c, ord)
        h == IF sh[2] = 1 THEN 1 ELSE FileData.h
        w == IF sh[3] = 1 THEN 1 ELSE FileData.w
        g == IF c.transform # None THEN IndexArray(c.transform, Indices(h, w))
             ELSE Indices(h, w)
    IN  [err |-> g.err, grid |-> g,
         flip_y |-> c.defocus_x # None /\ c.defocus_y.val < 0,
         flip_x |-> c.defocus_x # None /\ c.defocus_x.val < 0]

\* The error get_st raises on a container, "" if it returns a record.
GetStError(c, ord) ==
    IF c.defocus_x = None THEN "ValueError"
    ELSE IF c.data = None THEN "AttributeError"
    ELSE IF c.mask = None \/ c.good_frames = None \/ c.pixel_translations = None
    THEN "TypeError"
    ELSE IF ~CanBroadcast(c.mask, c.data) THEN "ValueError"
    ELSE IF ~FramesInRange(MulMask(c.data, c.mask), c.good_frames.v) THEN "IndexError"
    ELSE IF \E k \in 1..c.good_frames.n : c.good_frames.v[k] >= c.pixel_translations.sh[1]
    THEN "IndexError"
    ELSE PixelMap(c, ord).err

\* STData.get_st with its default arguments: the record of the solver,
\* holding a weak reference to the container it was derived from.
GetStRecord(r, c, ord) ==
    [parent |-> r, pixel_map |-> [base |-> PixelMap(c, ord), ver |-> 0],
     reference_image |-> None, scale_map |-> None, ver |-> 0]

\* One iteration of the solver on its record.
SolverUpdate(s) ==
    [s EXCEPT !.ver = s.ver + 1,
              !.pixel_map = [s.pixel_map EXCEPT !.ver = s.ver + 1],
              !.reference_image = [sh |-> <<s.pixel_map.base.grid.h, s.pixel_map.base.grid.w>>,
                                   fwd |-> <<>>, of |-> "reference_image", ver |-> s.ver + 1],
              !.scale_map = [sh |-> <<s.pixel_map.base.grid.h, s.pixel_map.base.grid.w>>,
                             fwd |-> <<>>, of |-> "scale_map", ver |-> s.ver + 1]]

\* A provenance test that accepts every record whose container is alive.
NotDerivedFromLax(s, r) == s.parent = "dead"

\* st_obj.parent() is not self
NotDerivedFrom(s, r) == s.parent # r

\* np.stack((dpm_y, dpm_x)) of st_obj.pixel_map - self.pixel_map()
PixelAberrations(c, ord, s) ==
    [sh |-> <<2, PixelMap(c, ord).grid.h, PixelMap(c, ord).grid.w>>, fwd |-> <<>>,
     of |-> "pixel_aberrations", ver |-> s.ver]

Phase(c, ord, s) ==
    [sh |-> <<PixelMap(c, ord).grid.h, PixelMap(c, ord).grid.w>>, fwd |-> <<>>,
     of |-> "phase", ver |-> s.ver]

\* An import_st that stores nothing on the receiver.
ImportStNoStore(c, ord, s, r) ==
    IF NotDerivedFrom(s, r) THEN [err |-> "ValueError", c |-> c]
    ELSE [err |-> "", c |-> c]

\* STData.import_st: the error raised and the receiver's attributes
\* afterwards.  pixel_aberrations is assigned before the magnification is
\* computed from distance and defocus, which fails when one of them is None
\* (distance is absent when the geometry attributes are).
ImportSt(c, ord, s, r) ==
    IF NotDerivedFrom(s, r) THEN [err |-> "ValueError", c |-> c]
    ELSE IF PixelMap(c, ord).err # "" THEN [err |-> PixelMap(c, ord).err, c |-> c]
    ELSE IF s.pixel_map.base.grid.h # PixelMap(c, ord).grid.h
            \/ s.pixel_map.base.grid.w # PixelMap(c, ord).grid.w
    THEN [err |-> "ValueError", c |-> c]
    ELSE IF c.defocus_y = None \/ c.defocus_x = None \/ c.translations = None
    THEN [err |-> "TypeError",
          c |-> [c EXCEPT !.pixel_aberrations = PixelAberrations(c, ord, s)]]
    ELSE [err |-> "",
          c |-> [c EXCEPT !.pixel_aberrations = PixelAberrations(c, ord, s),
                          !.phase = Phase(c, ord, s),
                          !.reference_image = s.reference_image,
                          !.scale_map = s.scale_map]]

\* STData.defocus_sweep: the error it raises, "" if it returns r_vals.  The
\* container update_defocus returns lives only until the call returns.
DefocusSweepError(c, ord, dx) ==
    LET a == Patch(c, OpUpdateDefocus(c, dx, Box(dx)).dict)
    IN  IF InitError(a, ord) # "" THEN InitError(a, ord)
        ELSE GetStError(NewContainer(a, ord), ord)

\* center <= self.shape[axis - 2]
LowBranch(center, L) == center <= L

\* STData.get_fit: [err, fit].  The fit record holds the pixel coordinates,
\* and the aberration samples as the sign they are multiplied with and, for
\* each position, the index of the mean aberration profile placed there.
GetFit(c, ord, center, axis) ==
    IF c.pixel_aberrations = None \/ c.phase = None THEN [err |-> "ValueError", fit |-> None]
    ELSE IF axis \notin {0, 1} THEN [err |-> "ValueError", fit |-> None]
    ELSE IF (axis = 0 /\ c.defocus_y = None) \/ (axis = 1 /\ c.defocus_x = None)
    THEN [err |-> "TypeError", fit |-> None]
    ELSE LET L == ShapeOfContainer(c, ord)[axis + 2]
         IN  IF LowBranch(center, L)
             THEN [err |-> "", fit |-> [pixels |-> [k \in 1..L |-> k - 1 - center],
                                        sign |-> 1,
                                        samples |-> [k \in 1..L |-> k - 1]]]
             ELSE IF center >= L - 1
             THEN [err |-> "", fit |-> [pixels |-> [k \in 1..L |-> center - L + k],
                                        sign |-> -1,
                                        samples |-> [k \in 1..L |-> L - k]]]
             ELSE [err |-> "ValueError", fit |-> None]

(***************************************************************************)
(* The caller: two variables "a" and "b" holding STData instances, and one *)
(* holding a solver record.  A call on the instance in one variable binds  *)
(* the container it returns to the other variable; the instance that       *)
(* variable held before is dropped, and a weak reference to it dies.       *)
(***************************************************************************)
MaxCalls == 3
MaxVer == 1

OrderDataLast ==
    <<"frames", "translations", "pixel_translations", "whitefield", "phase",
      "pixel_aberrations", "reference_image", "scale_map", "mask", "whitefields", "data">>
OrderMaskLast ==
    <<"frames", "translations", "pixel_translations", "whitefield", "phase",
      "pixel_aberrations", "reference_image", "scale_map", "data", "whitefields", "mask">>
Orders == {OrderDataLast, OrderMaskLast}

\* What the caller sees of a call: the outcome, and the receiver's
\* attributes as they were when the call was made.
Outcome(op, r, args, err, out) ==
    [op |-> op, recv |-> r, args |-> args, err |-> err, out |-> out, before |-> objs[r]]

\* dict_to_object around an operation body whose result is res: the new
\* instance is constructed from the receiver's attributes overridden by the
\* returned dict, and bound to the caller's other variable.
Call(op, r, args, res) ==
    LET a == Patch(objs[r], res.dict)
        err == IF res.err # "" THEN res.err ELSE InitError(a, order)
    IN  /\ calls < MaxCalls
        /\ calls' = calls + 1
        /\ objs' = IF err = "" THEN [objs EXCEPT ![Other(r)] = NewContainer(a, order)]
                   ELSE objs
        /\ st' = IF err = "" /\ st # None /\ st.parent = Other(r)
                 THEN [st EXCEPT !.parent = "dead"] ELSE st
        /\ last' = Outcome(op, r, args, err, None)
        /\ UNCHANGED <<order, tvars, svars, gvars>>

\* The caller is between two calls and its variable r holds an instance.
Held(r) == last = None /\ r \in Slots /\ objs[r] # None

Load(r, attributes, idxs) ==
    /\ Held(r)
    /\ Call("load", r, [attributes |-> attributes, idxs |-> idxs],
            OpLoad(objs[r], attributes, idxs))

Clear(r, attributes) ==
    /\ Held(r)
    /\ Call("clear", r, [attributes |-> attributes], OpClear(objs[r], attributes))

UpdateOutputFile(r, f) ==
    /\ Held(r)
    /\ Call("update_output_file", r, [output_file |-> f], OpUpdateOutputFile(objs[r], f))

IntegrateData(r, axis) ==
    /\ Held(r)
    /\ Call("integrate_data", r, [axis |-> axis], OpIntegrateData(objs[r], axis))

MaskFrames(r, good_frames) ==
    /\ Held(r)
    /\ Call("mask_frames", r, [good_frames |-> good_frames],
            OpMaskFrames(objs[r], good_frames))

UpdateMask(r, method, vmin, vmax, update) ==
    /\ Held(r)
    /\ Call("update_mask", r,
            [method |-> method, vmin |-> vmin, vmax |-> vmax, update |-> update],
            OpUpdateMask(objs[r], order, method, vmin, vmax, update))

UpdateTransform(r, t) ==
    /\ Held(r)
    /\ Call("update_transform", r, [transform |-> t], OpUpdateTransform(objs[r], t))

UpdateWhitefield(r) ==
    /\ Held(r)
    /\ Call("update_whitefield", r, <<>>, OpUpdateWhitefield(objs[r]))

UpdateDefocus(r, defocus_x, defocus_y) ==
    /\ Held(r)
    /\ Call("update_defocus", r, [defocus_x |-> defocus_x, defocus_y |-> defocus_y],
            OpUpdateDefocus(objs[r], defocus_x, defocus_y))

UpdateWhitefields(r, method) ==
    /\ Held(r)
    /\ Call("update_whitefields", r, [method |-> method],
            OpUpdateWhitefields(objs[r], method))

\* st_obj = self.get_st()
GetSt(r) ==
    /\ Held(r)
    /\ LET err == GetStError(objs[r], order)
       IN  /\ st' = IF err = "" THEN GetStRecord(r, objs[r], order) ELSE st
           /\ last' = Outcome("get_st", r, <<>>, err, None)
    /\ UNCHANGED <<objs, order, calls, tvars, svars, gvars>>

\* st_obj = st_obj.update_reference() and the like
SolverStep ==
    /\ last = None
    /\ st # None
    /\ st.ver < MaxVer
    /\ st' = SolverUpdate(st)
    /\ UNCHANGED <<objs, last, order, calls, tvars, svars, gvars>>

\* self.import_st(st_obj): assigns on the receiver itself
ImportStCall(r) ==
    /\ Held(r)
    /\ st # None
    /\ LET got == ImportSt(objs[r], order, st, r)
       IN  /\ objs' = [objs EXCEPT ![r] = got.c]
           /\ last' = Outcome("import_st", r, [ver |-> st.ver, parent |-> st.parent],
                              got.err, None)
    /\ UNCHANGED <<st, order, calls, tvars, svars, gvars>>

DefocusSweep(r, defoci_x) ==
    /\ Held(r)
    /\ LET err == DefocusSweepError(objs[r], order, defoci_x)
       IN  last' = Outcome("defocus_sweep", r, [defoci_x |-> defoci_x], err,
                           IF err = "" THEN [r_vals |-> 1] ELSE None)
    /\ UNCHANGED <<objs, st, order, calls, tvars, svars, gvars>>

GetFitCall(r, center, axis) ==
    /\ Held(r)
    /\ LET got == GetFit(objs[r], order, center, axis)
       IN  last' = Outcome("get_fit", r, [center |-> center, axis |-> axis],
                           got.err, got.fit)
    /\ UNCHANGED <<objs, st, order, calls, tvars, svars, gvars>>

\* The caller has looked at the outcome and goes on to its next call.
Observe ==
    /\ last # None
    /\ last' = None
    /\ UNCHANGED <<objs, st, order, calls, tvars, svars, gvars>>

\* STData(input_file): nothing loaded yet.
Init ==
    /\ order \in Orders
    /\ objs = [r \in Slots |-> IF r = "a" THEN NewContainer(EmptyAttrs, order) ELSE None]
    /\ st = None
    /\ last = None
    /\ calls = 0
    /\ IdleForward /\ IdleCompose /\ IdleShape /\ IdleSweep

\* The arguments the caller draws from.
LoadAttributes == {None, Vec(<<"data">>), Vec(<<"mask">>)}
LoadIdxs == {None, Vec(<<0, 2>>)}
ClearAttributes == {None, Vec(<<"whitefield">>)}
GoodFrames == {None, Vec(<<0>>)}
Methods == {"no-bad", "range-bad", "perc-bad", "bad"}
Updates == {"reset", "multiply", "add"}
Transforms == {Mirror(1), Crop(<<0, 2, 1, 3>>)}
Defoci == {2, -2}
Centers == -1..4

Next ==
    \E r \in Slots :
        \/ \E attributes \in LoadAttributes, idxs \in LoadIdxs : Load(r, attributes, idxs)
        \/ \E attributes \in ClearAttributes : Clear(r, attributes)
        \/ UpdateOutputFile(r, "out.cxi")
        \/ \E axis \in {0, 1} : IntegrateData(r, axis)
        \/ \E good_frames \in GoodFrames : MaskFrames(r, good_frames)
        \/ \E method \in Methods, update \in Updates : UpdateMask(r, method, 0, 3, update)
        \/ \E t \in Transforms : UpdateTransform(r, t)
        \/ UpdateWhitefield(r)
        \/ \E dx \in Defoci : UpdateDefocus(r, dx, None)
        \/ \E method \in {"median", "mean"} : UpdateWhitefields(r, method)
        \/ GetSt(r)
        \/ SolverStep
        \/ ImportStCall(r)
        \/ DefocusSweep(r, 2)
        \/ \E center \in Centers, axis \in 0..2 : GetFitCall(r, center, axis)
        \/ Observe

Spec == Init /\ [][Next]_vars

(***************************************************************************)
(* Claims about the container.                                             *)
(***************************************************************************)
Called(op) == last # None /\ last.op = op
Received == objs[last.recv]
Returned == objs[Other(last.recv)]
ImportedAttrs == {"pixel_aberrations", "phase", "reference_image", "scale_map"}

ImportProvenance ==
    Called("import_st") =>
        /\ last.err = "" => st.parent = last.recv
        /\ st.parent # last.recv => last.err = "ValueError" /\ Received = last.before

\* import_st was refused on a container derived by update_defocus from the
\* one the record came from.
ImportProvenanceWitness ==
    /\ Called("import_st")
    /\ st.parent = Other(last.recv)
    /\ Returned # None
    /\ Received.defocus_x # None
    /\ Received.defocus_x # Returned.defocus_x
    /\ Received.data = Returned.data
    /\ last.err = "ValueError"

\* import_st was refused because the record's container is gone.
ImportDeadWitness ==
    /\ Called("import_st")
    /\ st.parent = "dead"
    /\ last.err = "ValueError"

\* The whitefield of a container is the median of its own data[good_frames]
\* under its own mask[good_frames].
WhitefieldIsFresh(c) ==
    c.data # None =>
        /\ c.mask # None /\ c.whitefield # None
        /\ WhitefieldError(c.data, c.mask, c.good_frames) = ""
        /\ c.whitefield = DefaultWhitefield(c.data, c.mask, c.good_frames)

\* C2: in every container reached by load, mask_frames, update_mask,
\* update_whitefield, update_transform, integrate_data and
\* update_whitefields, whitefield is the per-pixel median of that
\* container's own data[good_frames] under its own mask[good_frames]; it is
\* never the whitefield of an earlier container's data, mask or good_frames.
WhitefieldNeverStale ==
    \A r \in Slots : objs[r] # None => WhitefieldIsFresh(objs[r])

\* The stale whitefield as load leaves it: a second load, of fewer frames,
\* returned a container that still carries the whitefield of the first.
StaleAfterLoad ==
    /\ Called("load")
    /\ last.err = ""
    /\ last.before.data # None
    /\ WhitefieldIsFresh(last.before)
    /\ Returned.data # last.before.data
    /\ Returned.whitefield = last.before.whitefield
    /\ ~WhitefieldIsFresh(Returned)

\* A stack that is true everywhere.
AllTrue(m) == \A f \in 1..m.n, i \in 1..m.h, j \in 1..m.w : m.v[f][i][j]

\* m is the mask old broadcast to the shape: a pixel of m is true exactly
\* where old is.
SameMask(m, old, shape) ==
    /\ ShapeOfStack(m) = shape
    /\ DimOk(old.n, m.n) /\ DimOk(old.h, m.h) /\ DimOk(old.w, m.w)
    /\ \A f \in 1..m.n, i \in 1..m.h, j \in 1..m.w :
          m.v[f][i][j] = old.v[BIdx(f, old.n)][BIdx(i, old.h)][BIdx(j, old.w)]

NoBadCalled(update) ==
    /\ Called("update_mask")
    /\ last.args.method = "no-bad"
    /\ last.args.update = update
    /\ last.err = ""

\* C8 as stated: update_mask(method='no-bad') yields a container whose mask
\* is all-true over shape, for every prior mask and for update 'reset' and
\* update 'multiply' alike.
NoBadAllTrue ==
    NoBadCalled("reset") \/ NoBadCalled("multiply") =>
        /\ ShapeOfStack(Returned.mask) = ShapeOfContainer(Returned, order)
        /\ AllTrue(Returned.mask)

\* C8, amended: update_mask(method='no-bad') with update='reset' yields a
\* container whose mask is all-true over shape; with update='multiply' the
\* mask it yields is the prior mask, true exactly where the prior mask was.
NoBadResetsOrKeeps ==
    /\ NoBadCalled("reset") =>
          /\ ShapeOfStack(Returned.mask) = ShapeOfContainer(Returned, order)
          /\ AllTrue(Returned.mask)
    /\ NoBadCalled("multiply") =>
          SameMask(Returned.mask, last.before.mask, ShapeOfContainer(Returned, order))

\* 'no-bad' with 'multiply' on a mask with a bad pixel kept that pixel bad.
NoBadMultiplyWitness ==
    /\ NoBadCalled("multiply")
    /\ ~AllTrue(last.before.mask)
    /\ ~AllTrue(Returned.mask)

\* C9: update_mask with a method other than 'no-bad', 'range-bad' and
\* 'perc-bad' fails with the invalid-argument error an invalid update
\* keyword fails with (ValueError), and returns no container.
InvalidMethodRaises ==
    Called("update_mask") /\ last.args.method \notin {"no-bad", "range-bad", "perc-bad"} =>
        last.err = "ValueError"

\* The extent of a container along the axis get_fit fits along.
Extent(c, axis) == ShapeOfContainer(c, order)[axis + 2]

\* C10: get_fit(center, axis) rejects every center strictly inside the axis
\* range, 0 < center < L - 1, and returns a fit record only when
\* center <= 0 or center >= L - 1.
InteriorCenterRejected ==
    Called("get_fit") /\ last.args.axis \in {0, 1} =>
        LET L == Extent(last.before, last.args.axis)
            center == last.args.center
        IN  /\ 0 < center /\ center < L - 1 => last.err # ""
            /\ last.err = "" => center <= 0 \/ center >= L - 1

\* C11: with the origin at the high edge of the axis or beyond it
\* (center >= L - 1) get_fit hands the fitter the coordinates center - index
\* sorted ascending, all non-negative, and the samples negated and reordered
\* to match; with the origin at the low edge (center = 0) the coordinates
\* are index - center and the samples are unchanged.
FitOrientation ==
    Called("get_fit") /\ last.err = "" =>
        LET L == Extent(last.before, last.args.axis)
            center == last.args.center
            fit == last.out
        IN  /\ center >= L - 1 =>
                  /\ \A k \in 1..L : fit.pixels[k] >= 0
                  /\ \A k \in 1..L : fit.pixels[k] = center - fit.samples[k]
                  /\ \A k \in 1..(L - 1) : fit.pixels[k] < fit.pixels[k + 1]
                  /\ fit.sign = -1
            /\ center = 0 =>
                  /\ \A k \in 1..L : fit.pixels[k] = (k - 1) - center
                  /\ \A k \in 1..L : fit.samples[k] = k - 1
                  /\ fit.sign = 1

(***************************************************************************)
(* The loop of defocus_sweep: the specification SpecSweep.  The solver is  *)
(* external: the reference image of each update is a record of the update  *)
(* that made it, the defocus pair it was made for and its shape, which the *)
(* solver decides.  The locals of the call are kept in sweep.              *)
(***************************************************************************)
MaxCand == 2
MaxRef == 3
MaxSize == 3

DefocusValues == {2, 3}
Candidates == UNION {[1..n -> DefocusValues] : n \in 1..MaxCand}

\* zip(defoci_x.ravel(), defoci_y.ravel())
ZipPairs(xs, ys) == [k \in 1..Min(Len(xs), Len(ys)) |-> <<xs[k], ys[k]>>]

\* The locals of defocus_sweep when the loop is entered.
SweepStart(defoci_x, defoci_y, size, return_extra) ==
    LET ys == IF defoci_y = None THEN defoci_x ELSE defoci_y.v
    IN  [pc |-> "loop", pairs |-> ZipPairs(defoci_x, ys), k |-> 0, size |-> size,
         return_extra |-> return_extra, df0 |-> "mean",
         st_obj |-> [updates |-> 0, scalings |-> <<>>, reference_image |-> None],
         r_vals |-> <<>>,
         extra |-> [reference_image |-> <<>>, r_image |-> <<>>],
         out |-> None]

\* The indices a filtered axis keeps, with a test that also filters an axis
\* exactly as long as the window.
KeptFilteringEqual(L, size) ==
    IF L >= size THEN SliceIdx(L, size \div 2, (-size) \div 2) ELSE AllIdx(L)

\* The indices of an axis of length L that mean and mean_sq keep:
\* [size // 2:-size // 2] of the filtered axis if L > size, every index
\* otherwise.
Kept(L, size) ==
    IF L > size THEN SliceIdx(L, size \div 2, (-size) \div 2) ELSE AllIdx(L)

\* r_image = (mean_sq - mean**2) / mean**2 of one reference image.
RImage(ref, size) ==
    [upd |-> ref.upd, rows |-> Kept(ref.h, size), cols |-> Kept(ref.w, size)]

\* A loop body that puts each new score in front of the earlier ones.
SweepStepPrepend(sw, h, w) ==
    LET pair == sw.pairs[sw.k + 1]
        ref == [upd |-> sw.st_obj.updates + 1, df |-> pair, h |-> h, w |-> w]
        r_image == RImage(ref, sw.size)
    IN  [sw EXCEPT !.k = sw.k + 1, !.df0 = pair,
                   !.st_obj = [updates |-> ref.upd,
                               scalings |-> Append(sw.st_obj.scalings, <<sw.df0, pair>>),
                               reference_image |-> ref],
                   !.extra = [reference_image |-> Append(sw.extra.reference_image, ref),
                              r_image |-> Append(sw.extra.r_image, r_image)],
                   !.r_vals = <<[mean_of |-> r_image]>> \o sw.r_vals]

\* One pass of the loop body, for the candidate pair at position k + 1 and a
\* reference image of h x w pixels.
SweepStep(sw, h, w) ==
    LET pair == sw.pairs[sw.k + 1]
        ref == [upd |-> sw.st_obj.updates + 1, df |-> pair, h |-> h, w |-> w]
        r_image == RImage(ref, sw.size)
    IN  [sw EXCEPT !.k = sw.k + 1, !.df0 = pair,
                   !.st_obj = [updates |-> ref.upd,
                               scalings |-> Append(sw.st_obj.scalings, <<sw.df0, pair>>),
                               reference_image |-> ref],
                   !.extra = [reference_image |-> Append(sw.extra.reference_image, ref),
                              r_image |-> Append(sw.extra.r_image, r_image)],
                   !.r_vals = Append(sw.r_vals, [mean_of |-> r_image])]

\* return r_vals, extra / return r_vals
SweepResult(sw) ==
    IF sw.return_extra THEN [r_vals |-> sw.r_vals, extra |-> sw.extra]
    ELSE [r_vals |-> sw.r_vals, extra |-> None]

SweepCall ==
    /\ sweep = None
    /\ \E xs \in Candidates, size \in 1..MaxSize, return_extra \in BOOLEAN :
          \/ sweep' = SweepStart(xs, None, size, return_extra)
          \/ \E ys \in Candidates : sweep' = SweepStart(xs, Vec(ys), size, return_extra)
    /\ UNCHANGED <<geo, tvars, svars, cvars>>

SweepIter ==
    /\ sweep # None
    /\ sweep.pc = "loop"
    /\ sweep.k < Len(sweep.pairs)
    /\ \E h \in 1..MaxRef, w \in 1..MaxRef : sweep' = SweepStep(sweep, h, w)
    /\ UNCHANGED <<geo, tvars, svars, cvars>>

SweepReturn ==
    /\ sweep # None
    /\ sweep.pc = "loop"
    /\ sweep.k = Len(sweep.pairs)
    /\ sweep' = [sweep EXCEPT !.pc = "returned", !.out = SweepResult(sweep)]
    /\ UNCHANGED <<geo, tvars, svars, cvars>>

InitSweep == IdleSweep /\ IdleForward /\ IdleCompose /\ IdleShape /\ IdleContainer
NextSweep == SweepCall \/ SweepIter \/ SweepReturn
SpecSweep == InitSweep /\ [][NextSweep]_vars

\* C12: defocus_sweep returns exactly one score per candidate pair, in the
\* order of the candidates: the k-th score is the mean of the variance map of
\* the k-th reference-image update, made for the k-th pair; with
\* return_extra the reference images and variance maps have the length and
\* the order of the scores.
SweepOneScorePerCandidate ==
    sweep # None /\ sweep.pc = "returned" =>
        LET out == sweep.out
        IN  /\ Len(out.r_vals) = Len(sweep.pairs)
            /\ \A k \in 1..Len(out.r_vals) : out.r_vals[k].mean_of.upd = k
            /\ sweep.return_extra =>
                  /\ Len(out.extra.reference_image) = Len(out.r_vals)
                  /\ Len(out.extra.r_image) = Len(out.r_vals)
                  /\ \A k \in 1..Len(out.r_vals) :
                        /\ out.extra.reference_image[k].upd = k
                        /\ out.extra.reference_image[k].df = sweep.pairs[k]
                        /\ out.extra.r_image[k] = out.r_vals[k].mean_of
            /\ ~sweep.return_extra => out.extra = None

\* A sweep over two different candidates has returned with the extras.
SweepWitness ==
    /\ sweep # None /\ sweep.pc = "returned"
    /\ sweep.return_extra
    /\ Len(sweep.pairs) = 2
    /\ sweep.pairs[1] # sweep.pairs[2]
    /\ Len(sweep.out.r_vals) = 2

\* A sweep over a single candidate has returned one score.
SweepSingleWitness ==
    /\ sweep # None /\ sweep.pc = "returned"
    /\ Len(sweep.pairs) = 1
    /\ Len(sweep.out.r_vals) = 1

\* C13: an axis of the reference image of length L <= size is neither
\* filtered nor cropped, the variance map keeps all L indices on it; an axis
\* with L > size is trimmed by half the window at each end (size div 2
\* indices at the start, the other half, rounded up, at the end); the
\* variance map is never empty along an axis.
KeptAsClaimed(kept, L, size) ==
    /\ L <= size => kept = AllIdx(L)
    /\ L > size =>
          /\ Len(kept) = L - size
          /\ \A i \in 1..Len(kept) : kept[i] = (size \div 2) + i - 1
          /\ kept[Len(kept)] = L - 1 - ((size + 1) \div 2)
    /\ Len(kept) >= 1

VarianceMapKeepsShortAxes ==
    sweep # None =>
        \A k \in 1..Len(sweep.extra.r_image) :
            /\ KeptAsClaimed(sweep.extra.r_image[k].rows,
                             sweep.extra.reference_image[k].h, sweep.size)
            /\ KeptAsClaimed(sweep.extra.r_image[k].cols,
                             sweep.extra.reference_image[k].w, sweep.size)

\* One axis is as long as the window and kept whole, the other is longer
\* and trimmed.
VarianceMapWitness ==
    /\ sweep # None
    /\ Len(sweep.extra.r_image) >= 1
    /\ sweep.extra.reference_image[1].h = sweep.size
    /\ Len(sweep.extra.r_image[1].rows) = sweep.size
    /\ sweep.extra.reference_image[1].w > sweep.size
    /\ Len(sweep.extra.r_image[1].cols) = sweep.extra.reference_image[1].w - sweep.size

(***************************************************************************)
(* The constructor called with attributes of the caller's choice, followed *)
(* by calls on the new instance: the specification SpecNew.                *)
(***************************************************************************)
MaxNewCalls == 1

\* A whitefield and a mask a caller may pass in: neither is what __init__
\* would derive from FileData.
GivenWhitefield == Frame(FileData.h, FileData.w, [i \in 1..FileData.h |-> [j \in 1..FileData.w |-> 7]])
GivenMask ==
    Stack(FileData.n, FileData.h, FileData.w,
          [f \in 1..FileData.n |-> [i \in 1..FileData.h |-> [j \in 1..FileData.w |->
              ~(f = 3 /\ i = 2 /\ j = 3)]]])
GivenPhase == [sh |-> <<FileData.h, FileData.w>>, fwd |-> <<>>, of |-> "phase", ver |-> 0]
GivenAberrations ==
    [sh |-> <<2, FileData.h, FileData.w>>, fwd |-> <<>>, of |-> "pixel_aberrations", ver |-> 0]

\* pixel_translations passed in by the caller rather than derived.
GivenPixelTranslations ==
    [sh |-> <<FileData.n, 2>>, defocus_y |-> 2, defocus_x |-> 2,
     translations |-> Vec(FileTranslations)]

\* STData(input_file, **kwargs): the keyword arguments the caller chooses.
Kwargs ==
    {[EmptyAttrs EXCEPT
        !.data = IF d THEN FileData ELSE None,
        !.frames = IF q THEN Vec(AllIdx(FileData.n)) ELSE None,
        !.translations = IF q THEN Vec(FileTranslations) ELSE None,
        !.good_frames = IF g THEN Vec(<<0>>) ELSE None,
        !.whitefield = IF w THEN GivenWhitefield ELSE None,
        !.mask = IF w THEN GivenMask ELSE None,
        !.defocus_x = IF x THEN Box(2) ELSE None,
        !.pixel_translations = IF pt THEN GivenPixelTranslations ELSE None,
        !.phase = IF ph THEN GivenPhase ELSE None,
        !.pixel_aberrations = IF ph THEN GivenAberrations ELSE None,
        !.output_file = IF ph THEN Box("out.cxi") ELSE None] :
     d \in BOOLEAN, q \in BOOLEAN, g \in BOOLEAN, w \in BOOLEAN, x \in BOOLEAN,
     ph \in BOOLEAN, pt \in BOOLEAN}

\* d = STData(input_file, **kwargs)
New(kwargs) ==
    /\ last = None
    /\ objs["a"] = None
    /\ calls < MaxNewCalls
    /\ LET err == InitError(kwargs, order)
       IN  /\ objs' = IF err = "" THEN [objs EXCEPT !["a"] = NewContainer(kwargs, order)]
                      ELSE objs
           /\ last' = Outcome("__init__", "a", kwargs, err, None)
    /\ calls' = calls + 1
    /\ UNCHANGED <<st, order, tvars, svars, gvars>>

\* STData.save: [err, saved], saved the attributes handed to save_attribute.
OpSave(c) ==
    IF c.output_file = None THEN [err |-> "ValueError", saved |-> {}]
    ELSE [err |-> "", saved |-> Tagged(c)]

Save(r) ==
    /\ Held(r)
    /\ last' = Outcome("save", r, <<>>, OpSave(objs[r]).err, [saved |-> OpSave(objs[r]).saved])
    /\ UNCHANGED <<objs, st, order, calls, tvars, svars, gvars>>

\* STData.fit_phase: the error raised, "" if the fitter is run.
FitPhaseError(c, ord, center, axis) ==
    IF c.pixel_aberrations = None \/ c.phase = None THEN "ValueError"
    ELSE GetFit(c, ord, center, axis).err

FitPhase(r, center, axis) ==
    /\ Held(r)
    /\ last' = Outcome("fit_phase", r, [center |-> center, axis |-> axis],
                       FitPhaseError(objs[r], order, center, axis), None)
    /\ UNCHANGED <<objs, st, order, calls, tvars, svars, gvars>>

\* STData.get_pca: the error raised, "" if it returns.
GetPcaError(c, ord) ==
    IF c.data = None THEN "AttributeError"
    ELSE IF c.whitefield = None THEN "AttributeError"
    ELSE IF c.good_frames = None \/ c.mask = None THEN "TypeError"
    ELSE IF ~FramesInRange(Ones(ShapeOfContainer(c, ord)), c.good_frames.v)
            \/ ~FramesInRange(c.data, c.good_frames.v)
            \/ ~FramesInRange(c.mask, c.good_frames.v)
    THEN "IndexError"
    ELSE IF ~CanBroadcast(c.data, AsStack(c.whitefield)) \/ ~CanBroadcast(c.data, c.mask)
    THEN "ValueError"
    ELSE ""

GetPca(r) ==
    /\ Held(r)
    /\ last' = Outcome("get_pca", r, <<>>, GetPcaError(objs[r], order), None)
    /\ UNCHANGED <<objs, st, order, calls, tvars, svars, gvars>>

InitNew ==
    /\ order \in Orders
    /\ objs = [r \in Slots |-> None]
    /\ st = None
    /\ last = None
    /\ calls = 0
    /\ IdleForward /\ IdleCompose /\ IdleShape /\ IdleSweep

\* The caller makes its calls right after the construction.
Early == calls <= MaxNewCalls

NextNew ==
    \/ \E kwargs \in Kwargs : New(kwargs)
    \/ Observe
    \/ \E r \in Slots, good_frames \in GoodFrames : Early /\ MaskFrames(r, good_frames)
    \/ \E r \in Slots, method \in Methods : Early /\ UpdateMask(r, method, 0, 3, "reset")
    \/ \E r \in Slots : Early /\ UpdateWhitefield(r)
    \/ \E r \in Slots, dx \in Defoci, dy \in {None, Box(3)} : Early /\ UpdateDefocus(r, dx, dy)
    \/ \E r \in Slots : Early /\ UpdateWhitefields(r, "median")
    \/ \E r \in Slots : Early /\ IntegrateData(r, 0)
    \/ \E r \in Slots : Early /\ GetSt(r)
    \/ \E r \in Slots : Early /\ ImportStCall(r)
    \/ \E r \in Slots : Early /\ GetFitCall(r, 0, 1)
    \/ \E r \in Slots, center \in {0, 2} : Early /\ FitPhase(r, center, 1)
    \/ \E r \in Slots : Early /\ Save(r)
    \/ \E r \in Slots : Early /\ GetPca(r)

SpecNew == InitNew /\ [][NextNew]_vars

(***************************************************************************)
(* Claims about single operations on a new instance.                       *)
(***************************************************************************)

\* C14: update_defocus(defocus_x, defocus_y) returns a container whose
\* defocus_x and defocus_y are the supplied values, defocus_y being
\* defocus_x when it is omitted, and whose pixel_translations is derived
\* from the new defocus values, not cached from the previous defocus.
DefocusUpdated ==
    Called("update_defocus") /\ last.err = "" =>
        LET dx == last.args.defocus_x
            dy == IF last.args.defocus_y = None THEN dx ELSE last.args.defocus_y.val
        IN  /\ Returned.defocus_x = Box(dx)
            /\ Returned.defocus_y = Box(dy)
            /\ Returned.pixel_translations # None
            /\ Returned.pixel_translations.defocus_x = dx
            /\ Returned.pixel_translations.defocus_y = dy
            /\ Returned.pixel_translations.translations = Returned.translations

\* The receiver carried pixel_translations of another defocus.
DefocusUpdatedWitness ==
    /\ Called("update_defocus") /\ last.err = ""
    /\ last.before.pixel_translations # None
    /\ last.before.pixel_translations.defocus_x # last.args.defocus_x
    /\ last.args.defocus_y # None
    /\ Returned.pixel_translations # last.before.pixel_translations

\* The frames of a stack whose elements sum to more than zero.
PositiveFrames(d) == {f \in 0..(d.n - 1) : FrameSums(d)[f + 1] > 0}

\* C15: mask_frames() returns a container whose good_frames is the
\* ascending list of exactly the frames whose data sums to more than zero,
\* and whose whitefield is recomputed over the new good_frames;
\* mask_frames(g) sets good_frames to g.
MaskFramesSelects ==
    Called("mask_frames") /\ last.err = "" =>
        LET gf == Returned.good_frames
        IN  /\ last.args.good_frames = None =>
                  /\ Range(gf.v) = PositiveFrames(last.before.data)
                  /\ \A k \in 1..(gf.n - 1) : gf.v[k] < gf.v[k + 1]
            /\ last.args.good_frames # None => gf = last.args.good_frames
            /\ Returned.data # None =>
                  Returned.whitefield = DefaultWhitefield(Returned.data, Returned.mask, gf)

\* The empty frame was left out and the whitefield changed with it.
MaskFramesWitness ==
    /\ Called("mask_frames") /\ last.err = ""
    /\ last.args.good_frames = None
    /\ last.before.good_frames = Vec(<<0, 1, 2>>)
    /\ Returned.good_frames = Vec(<<0, 2>>)
    /\ Returned.whitefield # last.before.whitefield

\* c.update_whitefield() as the container it returns.
WhitefieldUpdated(c) == NewContainer(Patch(c, OpUpdateWhitefield(c).dict), order)

\* C16: update_whitefield is idempotent: the whitefield of
\* c.update_whitefield().update_whitefield() is that of
\* c.update_whitefield(), and both are the masked median of c's data, mask
\* and good_frames whatever whitefield c held.
WhitefieldIdempotent ==
    Called("update_whitefield") /\ last.err = "" =>
        /\ last.before.data # None =>
              Returned.whitefield = DefaultWhitefield(last.before.data, last.before.mask,
                                                      last.before.good_frames)
        /\ InitError(Patch(Returned, OpUpdateWhitefield(Returned).dict), order) = ""
        /\ WhitefieldUpdated(Returned).whitefield = Returned.whitefield
        /\ WhitefieldUpdated(Returned) = Returned

\* The receiver held a whitefield that was not the median of its data.
WhitefieldIdempotentWitness ==
    /\ Called("update_whitefield") /\ last.err = ""
    /\ last.before.data # None
    /\ last.before.whitefield = GivenWhitefield
    /\ Returned.whitefield # GivenWhitefield

HasSequence(a) == \E x \in SequenceAttrs : a[x] # None
HasStack(a) == \E x \in StackAttrs : a[x] # None

\* C17 as stated: a container for which no good_frames was supplied has
\* good_frames equal to all frame indices 0..shape[0]-1 when a
\* sequence-kind attribute is present, and undefined when none is.
GoodFramesBySequence ==
    Called("__init__") /\ last.err = "" /\ last.args.good_frames = None =>
        /\ HasSequence(last.args) =>
              Received.good_frames = Vec(AllIdx(ShapeOfContainer(Received, order)[1]))
        /\ ~HasSequence(last.args) => Received.good_frames = None

\* C17, amended: a container for which no good_frames was supplied has
\* good_frames equal to all frame indices 0..shape[0]-1 when a non-empty
\* stack-kind or sequence-kind attribute is present (shape[0] > 0), and
\* undefined when neither kind is present.
GoodFramesByShape ==
    Called("__init__") /\ last.err = "" /\ last.args.good_frames = None =>
        /\ HasSequence(last.args) \/ HasStack(last.args) =>
              Received.good_frames = Vec(AllIdx(ShapeOfContainer(Received, order)[1]))
        /\ ~HasSequence(last.args) /\ ~HasStack(last.args) => Received.good_frames = None

\* A container made from a data stack alone has all its frames good.
GoodFramesWitness ==
    /\ Called("__init__") /\ last.err = "" /\ last.args.good_frames = None
    /\ ~HasSequence(last.args)
    /\ last.args.data # None
    /\ Received.good_frames = Vec(<<0, 1, 2>>)

\* C19: an operation that needs an attribute the container lacks fails
\* with an error and never proceeds: get_st without defocus; get_fit and
\* fit_phase without phase or pixel_aberrations; save without output_file;
\* integrate_data, mask_frames, update_mask, get_pca and update_whitefields
\* without data; import_st without defocus.
NeedsData == {"integrate_data", "mask_frames", "update_mask", "get_pca", "update_whitefields"}
MissingAttributeRaises ==
    last # None =>
        /\ last.op \in {"get_st", "import_st"} /\ last.before.defocus_x = None
              => last.err # ""
        /\ last.op \in {"get_fit", "fit_phase"}
              /\ (last.before.phase = None \/ last.before.pixel_aberrations = None)
              => last.err # ""
        /\ last.op = "save" /\ last.before.output_file = None => last.err # ""
        /\ last.op \in NeedsData /\ last.before.data = None => last.err # ""

\* C20: a Downscale whose scale is zero or negative is rejected with an
\* error at construction or when forward (index_array) is called; it never
\* returns an index grid or an output frame.
NonPositiveScaleRejected ==
    tcall.t # None =>
        (tcall.t.type = "Downscale" /\ tcall.t.scale <= 0 => tcall.out.err # "")

\* Downscale(-1).forward(frame) returned the frame reversed along both axes.
NegativeScaleReverses ==
    /\ tcall.t = Downscale(-1)
    /\ tcall.inp = LabelFrame(2, 2)
    /\ tcall.out.err = ""
    /\ tcall.out.v = <<(<<4, 3>>), (<<2, 1>>)>>

(***************************************************************************)
(* STData._pixel_translations.  Floats are modelled as exact rationals     *)
(* with the IEEE non-finite values a division by zero produces.            *)
(***************************************************************************)

MaxGeoFrames == 2

RECURSIVE Gcd(_, _)
Gcd(a, b) == IF b = 0 THEN a ELSE Gcd(b, a % b)

NaN == [nan |-> TRUE]
Inf(s) == [inf |-> s]
Rat(p, q) ==
    LET g == Gcd(Abs(p), Abs(q))
        s == IF q < 0 THEN -1 ELSE 1
    IN  [p |-> (s * p) \div g, q |-> (s * q) \div g]
Float(i) == Rat(i, 1)
IsFinite(x) == DOMAIN x = {"p", "q"}
IsNaN(x) == DOMAIN x = {"nan"}
SignOf(x) == IF IsFinite(x) THEN (IF x.p < 0 THEN -1 ELSE 1) ELSE x.inf

FNeg(x) ==
    IF IsNaN(x) THEN NaN
    ELSE IF IsFinite(x) THEN Rat(-x.p, x.q) ELSE Inf(-x.inf)
FAbs(x) ==
    IF IsNaN(x) THEN NaN
    ELSE IF IsFinite(x) THEN Rat(Abs(x.p), x.q) ELSE Inf(1)
FAdd(x, y) ==
    IF IsNaN(x) \/ IsNaN(y) THEN NaN
    ELSE IF IsFinite(x) /\ IsFinite(y) THEN Rat(x.p * y.q + y.p * x.q, x.q * y.q)
    ELSE IF IsFinite(x) THEN y
    ELSE IF IsFinite(y) THEN x
    ELSE IF x.inf = y.inf THEN x ELSE NaN
FSub(x, y) == FAdd(x, FNeg(y))
FMul(x, y) ==
    IF IsNaN(x) \/ IsNaN(y) THEN NaN
    ELSE IF IsFinite(x) /\ IsFinite(y) THEN Rat(x.p * y.p, x.q * y.q)
    ELSE IF (IsFinite(x) /\ x.p = 0) \/ (IsFinite(y) /\ y.p = 0) THEN NaN
    ELSE Inf(SignOf(x) * SignOf(y))
FDiv(x, y) ==
    IF IsNaN(x) \/ IsNaN(y) THEN NaN
    ELSE IF IsFinite(x) /\ IsFinite(y)
    THEN IF y.p # 0 THEN Rat(x.p * y.q, x.q * y.p)
         ELSE IF x.p = 0 THEN NaN ELSE Inf(SignOf(x))
    ELSE IF IsFinite(y) THEN Inf(SignOf(x) * SignOf(y))
    ELSE IF IsFinite(x) THEN Float(0) ELSE NaN
\* x == y on floats: a NaN equals nothing.
FEqual(x, y) == ~IsNaN(x) /\ ~IsNaN(y) /\ x = y

RECURSIVE FSum(_, _)
FSum(q, k) == IF k = 0 THEN Float(0) ELSE FAdd(FSum(q, k - 1), q[k])

\* basis_vectors of shape (2, 3), or of shape (N, 2, 3) with a pair per frame.
BasisShared(pair) == [ndim |-> 2, v |-> <<pair>>]
BasisPerFrame(pairs) == [ndim |-> 3, v |-> pairs]
\* The pair numpy's broadcasting puts against frame n.
BasisAt(bv, n) == IF bv.ndim = 2 THEN bv.v[1] ELSE bv.v[n]

\* (self.translations[:, None] * self.basis_vectors).sum(axis=-1)
Projected(translations, bv) ==
    [n \in 1..Len(translations) |->
        [a \in 1..2 |->
            FSum([i \in 1..3 |-> Float(translations[n][i] * BasisAt(bv, n)[a][i])], 3)]]

\* np.abs(self.distance / np.array([self.defocus_y, self.defocus_x]))
Mag(distance, defocus_x, defocus_y) ==
    [a \in 1..2 |-> FAbs(FDiv(Float(distance), Float(<<defocus_y, defocus_x>>[a])))]

\* (self.basis_vectors**2).sum(axis=-1), against frame n
BasisSquared(bv, n) ==
    [a \in 1..2 |-> Float(SumSeq([i \in 1..3 |-> BasisAt(bv, n)[a][i] * BasisAt(bv, n)[a][i]], 3))]

\* pixel_translations *= mag / (self.basis_vectors**2).sum(axis=-1)
Scaled(pt, mag, bv) ==
    [n \in 1..Len(pt) |->
        [a \in 1..2 |-> FMul(pt[n][a], FDiv(mag[a], BasisSquared(bv, n)[a]))]]

\* pixel_translations -= pixel_translations[0]
Referenced(pt) == [n \in 1..Len(pt) |-> [a \in 1..2 |-> FSub(pt[n][a], pt[1][a])]]

\* pixel_translations.mean(axis=0)
MeanAxis0(pt) ==
    [a \in 1..2 |-> FDiv(FSum([n \in 1..Len(pt) |-> pt[n][a]], Len(pt)), Float(Len(pt)))]

\* A last step that leaves the mean in.
CenteredNot(pt) == pt

\* pixel_translations -= pixel_translations.mean(axis=0)
Centered(pt) == [n \in 1..Len(pt) |-> [a \in 1..2 |-> FSub(pt[n][a], MeanAxis0(pt)[a])]]

\* translations with one constant vector added to every frame's.
Offset(translations, c) ==
    [n \in 1..Len(translations) |-> [i \in 1..3 |-> translations[n][i] + c[i]]]

TranslationVectors == {<<0, 0, 0>>, <<1, 2, 0>>}
BasisVectorValues == {<<1, 0, 0>>, <<0, 2, 0>>, <<0, 0, 0>>}
BasisPairs == BasisVectorValues \X BasisVectorValues
Distances == {-3, 2}
Shifts == {<<1, 1, 0>>, <<0, 3, 1>>}
TranslationSeqs == UNION {[1..n -> TranslationVectors] : n \in 1..MaxGeoFrames}
BasisFor(n) == {BasisShared(b) : b \in BasisPairs}
                   \cup {BasisPerFrame(q) : q \in [1..n -> BasisPairs]}

\* Line 355, on a translation sequence and on the same sequence offset by c.
GeoProject ==
    /\ geo = None
    /\ \E t \in TranslationSeqs, c \in Shifts, distance \in Distances,
          dx \in Defoci, dy \in Defoci :
          \E bv \in BasisFor(Len(t)) :
              geo' = [pc |-> "projected", translations |-> t, shift |-> c,
                      basis_vectors |-> bv, distance |-> distance,
                      defocus_x |-> dx, defocus_y |-> dy,
                      pt |-> Projected(t, bv),
                      shifted |-> Projected(Offset(t, c), bv)]
    /\ UNCHANGED <<tvars, svars, cvars, sweep>>

\* Lines 356-357.
GeoScale ==
    /\ geo # None /\ geo.pc = "projected"
    /\ LET mag == Mag(geo.distance, geo.defocus_x, geo.defocus_y)
       IN  geo' = [geo EXCEPT !.pc = "scaled",
                              !.pt = Scaled(geo.pt, mag, geo.basis_vectors),
                              !.shifted = Scaled(geo.shifted, mag, geo.basis_vectors)]
    /\ UNCHANGED <<tvars, svars, cvars, sweep>>

\* Line 358.
GeoReference ==
    /\ geo # None /\ geo.pc = "scaled"
    /\ geo' = [geo EXCEPT !.pc = "referenced", !.pt = Referenced(geo.pt),
                          !.shifted = Referenced(geo.shifted)]
    /\ UNCHANGED <<tvars, svars, cvars, sweep>>

\* Lines 359-360.
GeoCenter ==
    /\ geo # None /\ geo.pc = "referenced"
    /\ geo' = [geo EXCEPT !.pc = "returned", !.pt = Centered(geo.pt),
                          !.shifted = Centered(geo.shifted)]
    /\ UNCHANGED <<tvars, svars, cvars, sweep>>

\* The caller drops the result.
GeoDrop ==
    /\ geo # None /\ geo.pc = "returned"
    /\ geo' = None
    /\ UNCHANGED <<tvars, svars, cvars, sweep>>

InitGeo == IdleSweep /\ IdleForward /\ IdleCompose /\ IdleShape /\ IdleContainer
NextGeo == GeoProject \/ GeoScale \/ GeoReference \/ GeoCenter \/ GeoDrop
SpecGeo == InitGeo /\ [][NextGeo]_vars

GeoReturned == geo # None /\ geo.pc = "returned"
GeoFrames == 1..Len(geo.pt)
ZeroSum == \A a \in 1..2 : FSum([n \in GeoFrames |-> geo.pt[n][a]], Len(geo.pt)) = Float(0)
ShiftInvariant == \A n \in GeoFrames, a \in 1..2 : FEqual(geo.pt[n][a], geo.shifted[n][a])
NonZeroBasis ==
    \A n \in GeoFrames, a \in 1..2 : BasisAt(geo.basis_vectors, n)[a] # <<0, 0, 0>>
SameBasis ==
    \A n \in GeoFrames : BasisAt(geo.basis_vectors, n) = BasisAt(geo.basis_vectors, 1)

\* C18 as stated: the derived pixel_translations is the same when one
\* constant vector is added to every translation, and its per-axis sum over
\* the frames is zero, for every translation sequence, basis vectors,
\* distance and non-zero defocus.
PixelTranslationsInvariant == GeoReturned => ZeroSum /\ ShiftInvariant

\* C18, amended: for non-zero basis vectors the per-axis sum of the derived
\* pixel_translations over the frames is zero, and when the basis vectors
\* are moreover the same for every frame the derived pixel_translations is
\* the same when one constant vector is added to every translation.
PixelTranslationsInvariantSameBasis ==
    GeoReturned /\ NonZeroBasis => ZeroSum /\ (SameBasis => ShiftInvariant)

\* Two frames apart along both axes, offset by a vector both axes see.
PixelTranslationsWitness ==
    /\ GeoReturned /\ NonZeroBasis /\ SameBasis
    /\ Len(geo.pt) = 2
    /\ geo.shift = <<1, 1, 0>>
    /\ Projected(geo.translations, geo.basis_vectors)
           # Projected(Offset(geo.translations, geo.shift), geo.basis_vectors)
    /\ \A a \in 1..2 : geo.pt[1][a] # Float(0)

\* C25: when import_st fails for any reason, none of pixel_aberrations,
\* phase, reference_image and scale_map of the container is changed: the
\* container is entirely in its prior state, or has all four updated.
ImportIsAllOrNothing ==
    Called("import_st") /\ last.err # "" =>
        \A x \in ImportedAttrs : Received[x] = last.before[x]

\* import_st failed on the magnification and left new pixel_aberrations.
ImportHalfDone ==
    /\ Called("import_st") /\ last.err = "TypeError"
    /\ last.before.translations = None
    /\ Received.pixel_aberrations # last.before.pixel_aberrations
    /\ Received.phase = last.before.phase

(***************************************************************************)
(* A container loaded through a transform and then integrated: the         *)
(* specification SpecIntegrate.                                            *)
(***************************************************************************)

\* The transforms the container is constructed with, None for none.
LoadTransforms ==
    {None, Crop(<<0, 2, 1, 3>>), Crop(<<1, 2, 0, 3>>), Crop(<<0, 1, 0, 2>>),
     Downscale(1), Downscale(2), Mirror(0), Mirror(1),
     Compose(<<Mirror(1), Crop(<<0, 2, 1, 3>>)>>),
     Compose(<<Downscale(2), Mirror(0)>>)}

\* STData(input_file, transform=t).load()
Loaded(t, ord) ==
    LET c == NewContainer([EmptyAttrs EXCEPT !.transform = t], ord)
    IN  NewContainer(Patch(c, OpLoad(c, None, None).dict), ord)

\* pm = self.pixel_map(): the caller keeps the shape of the map.
PixelMapCall(r) ==
    /\ Held(r)
    /\ LET pm == PixelMap(objs[r], order)
       IN  last' = Outcome("pixel_map", r, <<>>, pm.err,
                           IF pm.err = "" THEN [sh |-> <<2, pm.grid.h, pm.grid.w>>]
                           ELSE None)
    /\ UNCHANGED <<objs, st, order, calls, tvars, svars, gvars>>

InitIntegrate ==
    /\ order \in Orders
    /\ \E t \in LoadTransforms :
          objs = [r \in Slots |-> IF r = "a" THEN Loaded(t, order) ELSE None]
    /\ st = None
    /\ last = None
    /\ calls = 0
    /\ IdleForward /\ IdleCompose /\ IdleShape /\ IdleSweep

NextIntegrate ==
    \/ \E r \in Slots, axis \in {0, 1} : IntegrateData(r, axis)
    \/ \E r \in Slots : PixelMapCall(r)
    \/ Observe

SpecIntegrate == InitIntegrate /\ [][NextIntegrate]_vars

\* C22: for every container that holds data, obtained from a load with any
\* transform followed by any sequence of integrate_data(axis=0) and
\* integrate_data(axis=1), the trailing two dimensions of pixel_map() equal
\* shape[1:] of the container.
PixelMapMatchesShape ==
    Called("pixel_map") /\ last.err = "" /\ last.before.data # None =>
        /\ last.out.sh[2] = ShapeOfContainer(last.before, order)[2]
        /\ last.out.sh[3] = ShapeOfContainer(last.before, order)[3]

\* A cropped container integrated along both axes has an empty pixel map.
PixelMapEmpty ==
    /\ Called("pixel_map") /\ last.err = ""
    /\ last.before.transform = Crop(<<0, 2, 1, 3>>)
    /\ ShapeOfContainer(last.before, order) = <<3, 1, 1>>
    /\ last.out.sh = <<2, 1, 0>>

(***************************************************************************)
(* The stack-kind attributes of a loaded container under the operations    *)
(* that rewrite them: the specification SpecStacks.                        *)
(***************************************************************************)

\* The shapes of cor_data and effs get_pca returns: one frame per good
\* frame.  Their values are not modelled.
GetPcaShapes(c, ord) ==
    LET sh == ShapeOfContainer(c, ord)
    IN  [cor_data |-> <<c.good_frames.n, sh[2], sh[3]>>,
         effs |-> <<c.good_frames.n, sh[2], sh[3]>>]

\* STData.update_whitefields(method='pca', cor_data=cor_data, effs=effs):
\* the weights have one row per frame of cor_data, and so have the
\* whitefields; the eigen flat-field part of their values is left out.
OpUpdateWhitefieldsPca(c, cor_data, effs) ==
    IF c.data = None THEN Raise("ValueError")
    ELSE IF <<cor_data[2], cor_data[3]>> # <<effs[2], effs[3]>> THEN Raise("ValueError")
    ELSE IF c.whitefield = None THEN Raise("TypeError")
    ELSE IF ~(c.whitefield.h \in {1, effs[2]} /\ c.whitefield.w \in {1, effs[3]})
    THEN Raise("ValueError")
    ELSE Return([k \in {"whitefields"} |->
                    Stack(cor_data[1], effs[2], effs[3],
                          [f \in 1..cor_data[1] |-> [i \in 1..effs[2] |-> [j \in 1..effs[3] |->
                              c.whitefield.v[BIdx(i, c.whitefield.h)][BIdx(j, c.whitefield.w)]]]])])

\* cor_data, effs, _ = self.get_pca()
\* new = self.update_whitefields('pca', cor_data=cor_data, effs=effs)
UpdateWhitefieldsPca(r) ==
    /\ Held(r)
    /\ \/ /\ GetPcaError(objs[r], order) # ""
          /\ last' = Outcome("get_pca", r, <<>>, GetPcaError(objs[r], order), None)
          /\ UNCHANGED <<objs, st, order, calls, tvars, svars, gvars>>
       \/ /\ GetPcaError(objs[r], order) = ""
          /\ LET pca == GetPcaShapes(objs[r], order)
             IN  Call("update_whitefields", r, [method |-> "pca"],
                      OpUpdateWhitefieldsPca(objs[r], pca.cor_data, pca.effs))

\* d = STData(input_file).load()
InitStacks ==
    /\ order \in Orders
    /\ objs = [r \in Slots |-> IF r = "a" THEN Loaded(None, order) ELSE None]
    /\ st = None
    /\ last = None
    /\ calls = 0
    /\ IdleForward /\ IdleCompose /\ IdleShape /\ IdleSweep

NextStacks ==
    \/ \E r \in Slots, good_frames \in GoodFrames : MaskFrames(r, good_frames)
    \/ \E r \in Slots, method \in {"no-bad", "range-bad", "perc-bad"},
          update \in {"reset", "multiply"} : UpdateMask(r, method, 0, 3, update)
    \/ \E r \in Slots, t \in Transforms : UpdateTransform(r, t)
    \/ \E r \in Slots, axis \in {0, 1} : IntegrateData(r, axis)
    \/ \E r \in Slots : GetPca(r)
    \/ \E r \in Slots : UpdateWhitefields(r, "median")
    \/ \E r \in Slots : UpdateWhitefieldsPca(r)
    \/ Observe

SpecStacks == InitStacks /\ [][NextStacks]_vars

PresentStacks(c) == {x \in StackAttrs : c[x] # None}
StacksAgreeIn(c) ==
    /\ \A x, y \in PresentStacks(c) : ShapeOf(x, c[x]) = ShapeOf(y, c[y])
    /\ \A x \in PresentStacks(c) :
          c.whitefield # None => <<c.whitefield.h, c.whitefield.w>> = <<c[x].h, c[x].w>>

\* C21: in every container reachable by any sequence of mask_frames,
\* update_mask, update_transform, integrate_data, get_pca and
\* update_whitefields ('median', or 'pca' with the cor_data and effs of
\* get_pca), all present stack-kind attributes have the same (frames,
\* height, width) shape and the whitefield has shape (height, width).
StacksAgree == \A r \in Slots : objs[r] # None => StacksAgreeIn(objs[r])

\* The dynamic whitefields of a container with fewer good frames than
\* frames have one frame per good frame.
WhitefieldsPerGoodFrame ==
    /\ Called("update_whitefields") /\ last.err = "" /\ last.args.method = "pca"
    /\ last.before.good_frames = Vec(<<0, 2>>)
    /\ Returned.data.n = 3
    /\ Returned.whitefields.n = 2

(***************************************************************************)
(* defocus_sweep up to the reference update of each pass: the defocus the  *)
(* offsets stand at, the offsets of the solver's record and the bandwidth. *)
(* The specification SpecTrack.  The solver is external: find_hopt returns *)
(* a bandwidth of its choice, and a reference update is a record of the    *)
(* arguments and offsets it ran with.                                      *)
(***************************************************************************)
MaxTrackCand == 2

TrackValues == {-2, 0, 1}
TrackCandidates == UNION {[1..n -> TrackValues] : n \in 1..MaxTrackCand}
TrackOffsets == {<<Rat(-3, 2), Rat(3, 2)>>, <<Float(-1), Float(1)>>}
Bandwidths == {3, 4}
RefMethods == {"KerReg", "LOWESS"}

\* defoci.mean()
MeanOf(xs) == FDiv(Float(SumSeq(xs, Len(xs))), Float(Len(xs)))

\* The offsets get_st reads from pixel_translations derived at the defocus
\* df: the solver's values, and NaN where _pixel_translations divided the
\* distance by a defocus of zero.
InitialOffsets(df, given) ==
    IF df = Float(0) THEN [n \in 1..Len(given) |-> NaN] ELSE given

\* pix *= np.abs(df0 / df1)
Rescaled(pix, df0, df1) == [n \in 1..Len(pix) |-> FMul(pix[n], FAbs(FDiv(df0, df1)))]

\* Lines 829-844: the locals when the initial record has been built.
TrackStart(defoci_x, defoci_y, hval, ref_method, di, dj) ==
    LET ys == IF defoci_y = None THEN defoci_x ELSE defoci_y.v
        df0_x == MeanOf(defoci_x)
        df0_y == MeanOf(ys)
        di_pix == InitialOffsets(df0_y, di)
        dj_pix == InitialOffsets(df0_x, dj)
    IN  [pc |-> "hval", pairs |-> ZipPairs(defoci_x, ys), k |-> 0,
         hval_arg |-> hval, hval |-> hval, ref_method |-> ref_method,
         df0_x |-> df0_x, df0_y |-> df0_y,
         initial |-> [df_x |-> df0_x, df_y |-> df0_y, di_pix |-> di_pix, dj_pix |-> dj_pix],
         st_obj |-> [di_pix |-> di_pix, dj_pix |-> dj_pix, find_hopt |-> <<>>,
                     updates |-> <<>>]]

\* A bandwidth estimated whether or not hval was supplied.
TrackFindHoptAlways(sw, h) ==
    [sw EXCEPT !.pc = "loop", !.hval = Box(h),
               !.st_obj.find_hopt =
                   Append(sw.st_obj.find_hopt,
                          [method |-> sw.ref_method, after |-> Len(sw.st_obj.updates),
                           di_pix |-> sw.st_obj.di_pix, dj_pix |-> sw.st_obj.dj_pix])]

\* Lines 845-846: if hval is None: hval = st_obj.find_hopt(method=ref_method),
\* h being what the solver answers.
TrackFindHopt(sw, h) ==
    IF sw.hval = None
    THEN [sw EXCEPT !.pc = "loop", !.hval = Box(h),
                    !.st_obj.find_hopt =
                        Append(sw.st_obj.find_hopt,
                               [method |-> sw.ref_method, after |-> Len(sw.st_obj.updates),
                                di_pix |-> sw.st_obj.di_pix, dj_pix |-> sw.st_obj.dj_pix])]
    ELSE [sw EXCEPT !.pc = "loop"]

\* Lines 848-854: one pass of the loop up to the reference update.
TrackStep(sw) ==
    LET df1_x == Float(sw.pairs[sw.k + 1][1])
        df1_y == Float(sw.pairs[sw.k + 1][2])
        di_pix == Rescaled(sw.st_obj.di_pix, sw.df0_y, df1_y)
        dj_pix == Rescaled(sw.st_obj.dj_pix, sw.df0_x, df1_x)
    IN  [sw EXCEPT !.k = sw.k + 1, !.df0_x = df1_x, !.df0_y = df1_y,
                   !.st_obj.di_pix = di_pix, !.st_obj.dj_pix = dj_pix,
                   !.st_obj.updates =
                       Append(sw.st_obj.updates,
                              [hval |-> sw.hval.val, method |-> sw.ref_method,
                               di_pix |-> di_pix, dj_pix |-> dj_pix])]

TrackCall ==
    /\ sweep = None
    /\ \E xs \in TrackCandidates, hval \in {None, Box(5)}, ref_method \in RefMethods,
          di \in TrackOffsets, dj \in TrackOffsets :
          \E ys \in {None} \cup {Vec(q) : q \in TrackCandidates} :
              sweep' = TrackStart(xs, ys, hval, ref_method, di, dj)
    /\ UNCHANGED <<geo, tvars, svars, cvars>>

TrackBandwidth ==
    /\ sweep # None
    /\ sweep.pc = "hval"
    /\ \E h \in Bandwidths : sweep' = TrackFindHopt(sweep, h)
    /\ UNCHANGED <<geo, tvars, svars, cvars>>

TrackIter ==
    /\ sweep # None
    /\ sweep.pc = "loop"
    /\ sweep.k < Len(sweep.pairs)
    /\ sweep' = TrackStep(sweep)
    /\ UNCHANGED <<geo, tvars, svars, cvars>>

TrackReturn ==
    /\ sweep # None
    /\ sweep.pc = "loop"
    /\ sweep.k = Len(sweep.pairs)
    /\ sweep' = [sweep EXCEPT !.pc = "returned"]
    /\ UNCHANGED <<geo, tvars, svars, cvars>>

InitTrack == IdleSweep /\ IdleForward /\ IdleCompose /\ IdleShape /\ IdleContainer
NextTrack == TrackCall \/ TrackBandwidth \/ TrackIter \/ TrackReturn
SpecTrack == InitTrack /\ [][NextTrack]_vars

\* The offsets of the initial record scaled by |mean defocus / df|.
ScaledFromInitial(pix, mean, df) ==
    [n \in 1..Len(pix) |-> FMul(pix[n], FAbs(FDiv(mean, Float(df))))]
SameOffsets(p, q) == Len(p) = Len(q) /\ \A n \in 1..Len(p) : FEqual(p[n], q[n])
TelescopesAt(k) ==
    /\ SameOffsets(sweep.st_obj.updates[k].dj_pix,
                   ScaledFromInitial(sweep.initial.dj_pix, sweep.initial.df_x,
                                     sweep.pairs[k][1]))
    /\ SameOffsets(sweep.st_obj.updates[k].di_pix,
                   ScaledFromInitial(sweep.initial.di_pix, sweep.initial.df_y,
                                     sweep.pairs[k][2]))
\* Neither the mean defocus nor a candidate up to the k-th is zero.
NonZeroUpTo(k) ==
    /\ sweep.initial.df_x # Float(0) /\ sweep.initial.df_y # Float(0)
    /\ \A j \in 1..k : sweep.pairs[j][1] # 0 /\ sweep.pairs[j][2] # 0

\* C23 as stated: the offsets used for the k-th candidate equal the offsets
\* of the initial record scaled per axis by |mean defocus / k-th candidate|,
\* whatever the earlier candidates were.
OffsetsTelescope ==
    sweep # None => \A k \in 1..Len(sweep.st_obj.updates) : TelescopesAt(k)

\* Where the mean defocus and the candidates up to the k-th are non-zero, the offsets used for the k-th candidate equal the offsets
\* of the initial record scaled per axis by |mean defocus / k-th candidate|.
OffsetsTelescopeNonZero ==
    sweep # None =>
        \A k \in 1..Len(sweep.st_obj.updates) : NonZeroUpTo(k) => TelescopesAt(k)

\* A zero candidate has been followed by a non-zero one: the offsets used
\* for the second are NaN, the scaled offsets of the initial record finite.
OffsetsPoisoned ==
    /\ sweep # None
    /\ Len(sweep.st_obj.updates) = 2
    /\ sweep.initial.df_x # Float(0)
    /\ sweep.pairs[1][1] = 0 /\ sweep.pairs[2][1] # 0
    /\ \A n \in 1..Len(sweep.initial.dj_pix) :
          /\ IsNaN(sweep.st_obj.updates[2].dj_pix[n])
          /\ IsFinite(ScaledFromInitial(sweep.initial.dj_pix, sweep.initial.df_x,
                                        sweep.pairs[2][1])[n])

\* C24: the bandwidth is fixed before the first candidate is processed:
\* find_hopt is invoked exactly once, on the initial record, when hval is
\* not supplied, and never when it is supplied; every reference update of
\* the sweep uses that same bandwidth and method.
BandwidthFixedOnce ==
    sweep # None =>
        /\ sweep.pc = "hval" => sweep.st_obj.updates = <<>> /\ sweep.st_obj.find_hopt = <<>>
        /\ sweep.pc # "hval" =>
              /\ sweep.hval # None
              /\ sweep.hval_arg # None =>
                    sweep.st_obj.find_hopt = <<>> /\ sweep.hval = sweep.hval_arg
              /\ sweep.hval_arg = None =>
                    /\ Len(sweep.st_obj.find_hopt) = 1
                    /\ sweep.st_obj.find_hopt[1].after = 0
                    /\ sweep.st_obj.find_hopt[1].method = sweep.ref_method
                    /\ sweep.st_obj.find_hopt[1].di_pix = sweep.initial.di_pix
                    /\ sweep.st_obj.find_hopt[1].dj_pix = sweep.initial.dj_pix
              /\ \A k \in 1..Len(sweep.st_obj.updates) :
                    /\ sweep.st_obj.updates[k].hval = sweep.hval.val
                    /\ sweep.st_obj.updates[k].method = sweep.ref_method

\* A sweep over two candidates has returned on an estimated bandwidth.
BandwidthWitness ==
    /\ sweep # None /\ sweep.pc = "returned"
    /\ sweep.hval_arg = None
    /\ Len(sweep.st_obj.find_hopt) = 1
    /\ Len(sweep.st_obj.updates) = 2
    /\ sweep.st_obj.updates[2].hval = sweep.hval.val

\* A sweep with a supplied bandwidth has returned without an estimate.
BandwidthSuppliedWitness ==
    /\ sweep # None /\ sweep.pc = "returned"
    /\ sweep.hval_arg = Box(5)
    /\ sweep.st_obj.find_hopt = <<>>
    /\ Len(sweep.st_obj.updates) = 2

====
